---- MODULE Spec2Model ----
(***************************************************************************)
(* Model of core/models/openaimodel.py: the construction and the forward   *)
(* pass of the U-Net towers (UNetModel2D, UNetModel0D_MultiDim) and the    *)
(* forward pass of the joint orchestrator UNetModelVD.                     *)
(*                                                                         *)
(* A tower under construction / in its forward pass is the record `unet`;  *)
(* one call of UNetModelVD.forward is the record `vd`; `pair` holds two    *)
(* calls of UNetModelVD.forward run side by side.                          *)
(***************************************************************************)
EXTENDS Integers, Sequences, FiniteSets, TLC

VARIABLES unet, vd, pair, tes, res, norm

vars == <<unet, vd, pair, tes, res, norm>>

----------------------------------------------------------------------------
(* Bounds of the explored inputs.                                          *)

\* number of resolution levels: len(channel_mult) in 1..MaxLevels
MaxLevels == 2
\* channel multipliers are drawn from 1..MaxMult
MaxMult == 2
\* num_noattn_blocks[level] is drawn from 0..MaxBlocks
MaxBlocks == 1
\* input height and width are drawn from 1..MaxSize
MaxSize == 4
\* model_channels of the towers that are built
ModelChannels == 2
\* input_channels of the towers that are built
InputChannels == 3
\* output_channels of the towers that are built
OutputChannels == 5

\* default of the parameter num_heads
NumHeads == 8
\* default of the parameter context_dim
ContextDim == 768

----------------------------------------------------------------------------
(* Helpers on sequences.                                                   *)

Last(s) == s[Len(s)]

Front(s) == SubSeq(s, 1, Len(s) - 1)

Reverse(s) == [i \in 1..Len(s) |-> s[Len(s) + 1 - i]]

RECURSIVE SumSeq(_)
SumSeq(s) == IF s = <<>> THEN 0 ELSE s[1] + SumSeq(Tail(s))

RECURSIVE Pow2(_)
Pow2(n) == IF n = 0 THEN 1 ELSE 2 * Pow2(n - 1)

\* all sequences over S of length n
SeqsOfLen(S, n) == [1..n -> S]

----------------------------------------------------------------------------
(* Modules.  A layer is a record naming its class, the channel count it    *)
(* declares for its input and the channel count it produces.               *)

Layer(type, channels, out_channels, context_dim) ==
    [type |-> type, channels |-> channels, out_channels |-> out_channels,
     context_dim |-> context_dim]

\* nn.Conv2d(in, out, 3, padding=1)
Conv2d(channels, out_channels) == Layer("Conv2d", channels, out_channels, 0)

\* ResBlockPreset(channels, time_embed_dim, out_channels=...); with
\* use_video_architecture it is the first member of an nn.ModuleList whose
\* second member is a SpatioTemporalAttention(dim = out_channels)
StageBlock(video, channels, out_channels) ==
    Layer(IF video THEN "ModuleList" ELSE "ResBlock", channels, out_channels, 0)

\* SpatialTransformer(channels, num_heads, dim_head, depth=1, context_dim=...)
SpatialTransformer(channels, context_dim) ==
    Layer("SpatialTransformer", channels, channels, context_dim)

\* Downsample(channels, use_conv=True, dims=2, out_channels=...)
Downsample(channels, out_channels) == Layer("Downsample", channels, out_channels, 0)

\* Upsample(channels, use_conv=True, dims=2, out_channels=...)
Upsample(channels, out_channels) == Layer("Upsample", channels, out_channels, 0)

\* normalization(channels)
Normalization(channels) == Layer("normalization", channels, channels, 0)

\* TimestepEmbedSequential(*layers) / nn.Sequential(*layers)
Sequential(layers) == [none |-> FALSE, layers |-> layers]

\* a None entry of a connector list
NoneModule == [none |-> TRUE, layers |-> <<>>]

----------------------------------------------------------------------------
(* UNetModel2D.__init__.  The object under construction is a record; each  *)
(* operator below is one piece of the constructor, applied to it.          *)

\* the exception a statement raises ends the constructor (or the call)
Raise(s, exception) == [s EXCEPT !.pc = "error", !.err = exception]

\* the configuration a tower is built from
Config(kind, channel_mult, num_noattn_blocks, with_attn, with_connector, channel_mult_connector, num_noattn_blocks_connector, video, second_dim, second_dim_connector) ==
    [kind |-> kind,
     second_dim |-> second_dim,
     second_dim_connector |-> second_dim_connector,
     input_channels |-> InputChannels,
     model_channels |-> ModelChannels,
     output_channels |-> OutputChannels,
     context_dim |-> ContextDim,
     num_noattn_blocks |-> num_noattn_blocks,
     channel_mult |-> channel_mult,
     with_attn |-> with_attn,
     channel_mult_connector |-> channel_mult_connector,
     num_noattn_blocks_connector |-> num_noattn_blocks_connector,
     with_connector |-> with_connector,
     num_heads |-> NumHeads,
     use_video_architecture |-> video]

\* the state on entry of __init__, up to the first connector pipeline
\* (dim_head = -1: the local name is not bound yet)
NewUNet2D(cfg) ==
    [cfg |-> cfg,
     pc |-> "connecters_out",
     err |-> "",
     level_idx |-> 0,
     block_idx |-> 0,
     current_channel |-> cfg.model_channels \div 2,
     dim_head |-> -1,
     connector_out_channels |-> 0,
     connecters_out |->
        <<Sequential(<<Conv2d(cfg.input_channels, cfg.model_channels \div 2)>>)>>,
     input_blocks |-> <<>>,
     input_block_channels |-> <<>>,
     input_block_connecters_in |-> <<>>,
     middle_block |-> NoneModule,
     output_blocks |-> <<>>,
     output_block_connecters_in |-> <<>>,
     out |-> NoneModule,
     pushed |-> <<>>,
     popped |-> <<>>,
     x |-> [ok |-> TRUE, C |-> 0, H |-> 0, W |-> 0],
     h |-> [ok |-> TRUE, C |-> 0, H |-> 0, W |-> 0],
     hs |-> <<>>,
     step |-> 0,
     applied |-> <<>>]

\* one iteration of the inner loop of the connector tower
ConnecterBlock2D(s) ==
    LET cfg == s.cfg
        mult == cfg.channel_mult_connector[s.level_idx + 1]
        layers == <<StageBlock(cfg.use_video_architecture, s.current_channel,
                               mult * cfg.model_channels)>>
    IN [s EXCEPT !.current_channel = mult * cfg.model_channels,
                 !.connecters_out = Append(@, Sequential(layers)),
                 !.block_idx = @ + 1]

\* the end of one level of the connector tower: a Downsample between levels,
\* connector_out_channels after the last one
ConnecterLevelEnd2D(s) ==
    LET cfg == s.cfg
        last == s.level_idx = Len(cfg.channel_mult_connector) - 1
    IN IF ~last
       THEN [s EXCEPT !.connecters_out =
                          Append(@, Sequential(<<Downsample(s.current_channel,
                                                            s.current_channel)>>)),
                      !.level_idx = @ + 1,
                      !.block_idx = 0]
       ELSE [s EXCEPT !.connector_out_channels = s.current_channel,
                      !.pc = "input_init",
                      !.level_idx = 0,
                      !.block_idx = 0]

\* the first input pipeline and the lists that run beside it
InputInit2D(s) ==
    LET cfg == s.cfg
    IN [s EXCEPT !.current_channel = cfg.model_channels,
                 !.input_blocks =
                     <<Sequential(<<Conv2d(cfg.input_channels, cfg.model_channels)>>)>>,
                 !.input_block_channels = <<cfg.model_channels>>,
                 !.pushed = <<cfg.model_channels>>,
                 !.input_block_connecters_in = <<NoneModule>>,
                 !.pc = "input_blocks"]

\* InputBlock2D recording the channel count before the block instead of after
InputBlock2DStalePush(s) ==
    LET cfg == s.cfg
        lv == s.level_idx + 1
        mult == cfg.channel_mult[lv]
        cc == mult * cfg.model_channels
        block == StageBlock(cfg.use_video_architecture, s.current_channel, cc)
    IN IF lv > Len(cfg.with_attn) \/ lv > Len(cfg.with_connector)
       THEN Raise(s, "IndexError")
       ELSE LET layers == <<block>> \o
                          (IF cfg.with_attn[lv]
                           THEN <<SpatialTransformer(cc, cfg.context_dim)>>
                           ELSE <<>>)
                con == IF cfg.with_connector[lv]
                       THEN Sequential(<<SpatialTransformer(cc, s.connector_out_channels)>>)
                       ELSE NoneModule
            IN [s EXCEPT !.current_channel = cc,
                         !.dim_head = cc \div cfg.num_heads,
                         !.input_blocks = Append(@, Sequential(layers)),
                         !.input_block_channels = Append(@, s.current_channel),
                         !.pushed = Append(@, s.current_channel),
                         !.input_block_connecters_in = Append(@, con),
                         !.block_idx = @ + 1]

\* one iteration of the inner loop of the encoder
InputBlock2D(s) ==
    LET cfg == s.cfg
        lv == s.level_idx + 1
        mult == cfg.channel_mult[lv]
        cc == mult * cfg.model_channels
        block == StageBlock(cfg.use_video_architecture, s.current_channel, cc)
    IN IF lv > Len(cfg.with_attn) \/ lv > Len(cfg.with_connector)
       THEN Raise(s, "IndexError")
       ELSE LET layers == <<block>> \o
                          (IF cfg.with_attn[lv]
                           THEN <<SpatialTransformer(cc, cfg.context_dim)>>
                           ELSE <<>>)
                con == IF cfg.with_connector[lv]
                       THEN Sequential(<<SpatialTransformer(cc, s.connector_out_channels)>>)
                       ELSE NoneModule
            IN [s EXCEPT !.current_channel = cc,
                         !.dim_head = cc \div cfg.num_heads,
                         !.input_blocks = Append(@, Sequential(layers)),
                         !.input_block_channels = Append(@, cc),
                         !.pushed = Append(@, cc),
                         !.input_block_connecters_in = Append(@, con),
                         !.block_idx = @ + 1]

\* InputLevelEnd2D with the Downsample's channel count not recorded
InputLevelEnd2DNoPush(s) ==
    LET cfg == s.cfg
        last == s.level_idx = Len(cfg.channel_mult) - 1
    IN IF ~last
       THEN [s EXCEPT !.input_blocks =
                          Append(@, Sequential(<<Downsample(s.current_channel,
                                                            s.current_channel)>>)),
                      !.input_block_connecters_in = Append(@, NoneModule),
                      !.level_idx = @ + 1,
                      !.block_idx = 0]
       ELSE [s EXCEPT !.pc = "middle_block"]

\* the end of one level of the encoder: a Downsample between levels
InputLevelEnd2D(s) ==
    LET cfg == s.cfg
        last == s.level_idx = Len(cfg.channel_mult) - 1
    IN IF ~last
       THEN [s EXCEPT !.input_blocks =
                          Append(@, Sequential(<<Downsample(s.current_channel,
                                                            s.current_channel)>>)),
                      !.input_block_channels = Append(@, s.current_channel),
                      !.pushed = Append(@, s.current_channel),
                      !.input_block_connecters_in = Append(@, NoneModule),
                      !.level_idx = @ + 1,
                      !.block_idx = 0]
       ELSE [s EXCEPT !.pc = "middle_block"]

\* the bottleneck; dim_head is the value the encoder left, and reading it
\* before any encoder block has bound it is a NameError
MiddleBlock2D(s) ==
    LET cfg == s.cfg
        layer == StageBlock(cfg.use_video_architecture, s.current_channel,
                            s.current_channel)
    IN IF s.dim_head = -1
       THEN Raise(s, "NameError")
       ELSE [s EXCEPT !.middle_block =
                          Sequential(<<layer,
                                       SpatialTransformer(s.current_channel,
                                                          cfg.context_dim),
                                       layer>>),
                      !.pc = "output_blocks",
                      !.level_idx = Len(cfg.channel_mult) - 1,
                      !.block_idx = 0]

\* OutputBlock2D with the Upsample on every level but the first built
OutputBlock2DUpsampleAsDownsample(s) ==
    LET cfg == s.cfg
        lv == s.level_idx + 1
        mult == cfg.channel_mult[lv]
        cc == cfg.model_channels * mult
        lastOfLevel == s.block_idx = cfg.num_noattn_blocks[lv]
    IN IF s.input_block_channels = <<>>
       THEN Raise(s, "IndexError: pop from empty list")
       ELSE IF lv > Len(cfg.with_attn) \/ lv > Len(cfg.with_connector)
       THEN Raise(s, "IndexError")
       ELSE LET extra_channel == Last(s.input_block_channels)
                block == StageBlock(cfg.use_video_architecture,
                                    s.current_channel + extra_channel, cc)
                layers == <<block>> \o
                          (IF cfg.with_attn[lv]
                           THEN <<SpatialTransformer(cc, cfg.context_dim)>>
                           ELSE <<>>) \o
                          (IF s.level_idx # Len(cfg.channel_mult) - 1 /\ lastOfLevel
                           THEN <<Upsample(cc, cc)>>
                           ELSE <<>>)
                con == IF cfg.with_connector[lv]
                       THEN Sequential(<<SpatialTransformer(cc, s.connector_out_channels)>>)
                       ELSE NoneModule
            IN [s EXCEPT !.input_block_channels = Front(@),
                         !.popped = Append(@, extra_channel),
                         !.current_channel = cc,
                         !.dim_head = cc \div cfg.num_heads,
                         !.output_block_connecters_in = Append(@, con),
                         !.output_blocks = Append(@, Sequential(layers)),
                         !.block_idx = IF lastOfLevel THEN 0 ELSE @ + 1,
                         !.level_idx = IF lastOfLevel THEN @ - 1 ELSE @,
                         !.pc = IF lastOfLevel /\ s.level_idx = 0
                                THEN "out" ELSE "output_blocks"]

\* one iteration of the inner loop of the decoder
OutputBlock2D(s) ==
    LET cfg == s.cfg
        lv == s.level_idx + 1
        mult == cfg.channel_mult[lv]
        cc == cfg.model_channels * mult
        lastOfLevel == s.block_idx = cfg.num_noattn_blocks[lv]
    IN IF s.input_block_channels = <<>>
       THEN Raise(s, "IndexError: pop from empty list")
       ELSE IF lv > Len(cfg.with_attn) \/ lv > Len(cfg.with_connector)
       THEN Raise(s, "IndexError")
       ELSE LET extra_channel == Last(s.input_block_channels)
                block == StageBlock(cfg.use_video_architecture,
                                    s.current_channel + extra_channel, cc)
                layers == <<block>> \o
                          (IF cfg.with_attn[lv]
                           THEN <<SpatialTransformer(cc, cfg.context_dim)>>
                           ELSE <<>>) \o
                          (IF s.level_idx # 0 /\ lastOfLevel
                           THEN <<Upsample(cc, cc)>>
                           ELSE <<>>)
                con == IF cfg.with_connector[lv]
                       THEN Sequential(<<SpatialTransformer(cc, s.connector_out_channels)>>)
                       ELSE NoneModule
            IN [s EXCEPT !.input_block_channels = Front(@),
                         !.popped = Append(@, extra_channel),
                         !.current_channel = cc,
                         !.dim_head = cc \div cfg.num_heads,
                         !.output_block_connecters_in = Append(@, con),
                         !.output_blocks = Append(@, Sequential(layers)),
                         !.block_idx = IF lastOfLevel THEN 0 ELSE @ + 1,
                         !.level_idx = IF lastOfLevel THEN @ - 1 ELSE @,
                         !.pc = IF lastOfLevel /\ s.level_idx = 0
                                THEN "out" ELSE "output_blocks"]

\* the final projection
Out2D(s) ==
    LET cfg == s.cfg
    IN [s EXCEPT !.out = Sequential(<<Normalization(s.current_channel),
                                      Conv2d(cfg.model_channels, cfg.output_channels)>>),
                 !.pc = "built"]

----------------------------------------------------------------------------
(* UNetModel0D_MultiDim.__init__.  A channel count is the list              *)
(* [channels, second dimension, 1].                                        *)

\* FCBlockPreset(channels, time_embed_dim, out_channels=...)
FCBlock_MultiDim(channels, out_channels) ==
    Layer("FCBlock_MultiDim", channels, out_channels, 0)

\* Linear_MultiDim(in_features, out_features, bias=True)
Linear_MultiDim(in_features, out_features) ==
    Layer("Linear_MultiDim", in_features, out_features, 0)

Min(a, b) == IF a < b THEN a ELSE b

\* number of iterations of `for ... in enumerate(zip(channel_mult, second_dim))`
ZipLevels(cfg) == Min(Len(cfg.channel_mult), Len(cfg.second_dim))

\* number of iterations of the zip over the connector schedule
ZipLevelsConnector(cfg) ==
    Min(Len(cfg.channel_mult_connector), Len(cfg.second_dim_connector))

\* the state on entry of __init__, up to the first connector pipeline
NewUNet0D(cfg) ==
    [NewUNet2D(cfg) EXCEPT
        !.current_channel = <<cfg.model_channels \div 2, cfg.second_dim[1], 1>>,
        !.connecters_out =
            <<Sequential(<<Linear_MultiDim(<<cfg.input_channels, 1, 1>>,
                                           <<cfg.model_channels \div 2,
                                             cfg.second_dim[1], 1>>)>>)>>]

\* one iteration of the inner loop of the connector tower
ConnecterBlock0D(s) ==
    LET cfg == s.cfg
        mult == cfg.channel_mult_connector[s.level_idx + 1]
        sdim == cfg.second_dim_connector[s.level_idx + 1]
        cc == <<mult * cfg.model_channels, sdim, 1>>
    IN [s EXCEPT !.current_channel = cc,
                 !.connecters_out =
                     Append(@, Sequential(<<FCBlock_MultiDim(s.current_channel, cc)>>)),
                 !.block_idx = @ + 1]

\* the end of one level of the connector tower: a Linear_MultiDim between
\* levels, connector_out_channels after the last one
ConnecterLevelEnd0D(s) ==
    LET cfg == s.cfg
        between == s.level_idx # Len(cfg.channel_mult_connector) - 1
        exhausted == s.level_idx + 1 = ZipLevelsConnector(cfg)
        lin == Sequential(<<Linear_MultiDim(s.current_channel, s.current_channel)>>)
    IN [s EXCEPT !.connecters_out = IF between THEN Append(@, lin) ELSE @,
                 !.connector_out_channels =
                     IF exhausted THEN s.current_channel[1] ELSE @,
                 !.pc = IF exhausted THEN "input_init" ELSE @,
                 !.level_idx = IF exhausted THEN 0 ELSE @ + 1,
                 !.block_idx = 0]

\* the first input pipeline and the lists that run beside it
InputInit0D(s) ==
    LET cfg == s.cfg
        cc == <<cfg.model_channels, cfg.second_dim[1], 1>>
    IN [s EXCEPT !.current_channel = cc,
                 !.input_blocks =
                     <<Sequential(<<Linear_MultiDim(<<cfg.input_channels, 1, 1>>, cc)>>)>>,
                 !.input_block_channels = <<cc>>,
                 !.pushed = <<cc>>,
                 !.input_block_connecters_in = <<NoneModule>>,
                 !.pc = "input_blocks"]

\* one iteration of the inner loop of the encoder
InputBlock0D(s) ==
    LET cfg == s.cfg
        lv == s.level_idx + 1
        cc == <<cfg.channel_mult[lv] * cfg.model_channels, cfg.second_dim[lv], 1>>
        block == FCBlock_MultiDim(s.current_channel, cc)
    IN IF lv > Len(cfg.with_attn) \/ lv > Len(cfg.with_connector)
       THEN Raise(s, "IndexError")
       ELSE LET layers == <<block>> \o
                          (IF cfg.with_attn[lv]
                           THEN <<SpatialTransformer(cc[1], cfg.context_dim)>>
                           ELSE <<>>)
                con == IF cfg.with_connector[lv]
                       THEN Sequential(<<SpatialTransformer(cc[1],
                                                            s.connector_out_channels)>>)
                       ELSE NoneModule
            IN [s EXCEPT !.current_channel = cc,
                         !.dim_head = cc[1] \div cfg.num_heads,
                         !.input_blocks = Append(@, Sequential(layers)),
                         !.input_block_channels = Append(@, cc),
                         !.pushed = Append(@, cc),
                         !.input_block_connecters_in = Append(@, con),
                         !.block_idx = @ + 1]

\* InputLevelEnd0D without the None beside the Linear_MultiDim
InputLevelEnd0DNoConnecterSlot(s) ==
    LET cfg == s.cfg
        between == s.level_idx # Len(cfg.channel_mult) - 1
        exhausted == s.level_idx + 1 = ZipLevels(cfg)
        lin == Sequential(<<Linear_MultiDim(s.current_channel, s.current_channel)>>)
    IN [s EXCEPT !.input_blocks = IF between THEN Append(@, lin) ELSE @,
                 !.input_block_channels =
                     IF between THEN Append(@, s.current_channel) ELSE @,
                 !.pushed = IF between THEN Append(@, s.current_channel) ELSE @,
                 !.pc = IF exhausted THEN "middle_block" ELSE @,
                 !.level_idx = IF exhausted THEN @ ELSE @ + 1,
                 !.block_idx = 0]

\* the end of one level of the encoder: a Linear_MultiDim between levels
InputLevelEnd0D(s) ==
    LET cfg == s.cfg
        between == s.level_idx # Len(cfg.channel_mult) - 1
        exhausted == s.level_idx + 1 = ZipLevels(cfg)
        lin == Sequential(<<Linear_MultiDim(s.current_channel, s.current_channel)>>)
    IN [s EXCEPT !.input_blocks = IF between THEN Append(@, lin) ELSE @,
                 !.input_block_channels =
                     IF between THEN Append(@, s.current_channel) ELSE @,
                 !.pushed = IF between THEN Append(@, s.current_channel) ELSE @,
                 !.input_block_connecters_in =
                     IF between THEN Append(@, NoneModule) ELSE @,
                 !.pc = IF exhausted THEN "middle_block" ELSE @,
                 !.level_idx = IF exhausted THEN @ ELSE @ + 1,
                 !.block_idx = 0]

\* the bottleneck
MiddleBlock0D(s) ==
    LET cfg == s.cfg
        layer == FCBlock_MultiDim(s.current_channel, s.current_channel)
    IN IF s.dim_head = -1
       THEN Raise(s, "NameError")
       ELSE [s EXCEPT !.middle_block =
                          Sequential(<<layer,
                                       SpatialTransformer(s.current_channel[1],
                                                          cfg.context_dim),
                                       layer>>),
                      !.pc = "output_blocks",
                      !.level_idx = ZipLevels(cfg) - 1,
                      !.block_idx = 0]

\* one iteration of the inner loop of the decoder
OutputBlock0D(s) ==
    LET cfg == s.cfg
        lv == s.level_idx + 1
        cc == <<cfg.channel_mult[lv] * cfg.model_channels, cfg.second_dim[lv], 1>>
        lastOfLevel == s.block_idx = cfg.num_noattn_blocks[lv]
    IN IF s.input_block_channels = <<>>
       THEN Raise(s, "IndexError: pop from empty list")
       ELSE IF lv > Len(cfg.with_attn) \/ lv > Len(cfg.with_connector)
       THEN Raise(s, "IndexError")
       ELSE LET extra_channel == Last(s.input_block_channels)
                block == FCBlock_MultiDim(
                             <<s.current_channel[1] + extra_channel[1]>> \o
                                 Tail(s.current_channel),
                             cc)
                layers == <<block>> \o
                          (IF cfg.with_attn[lv]
                           THEN <<SpatialTransformer(cc[1], cfg.context_dim)>>
                           ELSE <<>>) \o
                          (IF s.level_idx # 0 /\ lastOfLevel
                           THEN <<Linear_MultiDim(cc, cc)>>
                           ELSE <<>>)
                con == IF cfg.with_connector[lv]
                       THEN Sequential(<<SpatialTransformer(cc[1],
                                                            s.connector_out_channels)>>)
                       ELSE NoneModule
            IN [s EXCEPT !.input_block_channels = Front(@),
                         !.popped = Append(@, extra_channel),
                         !.current_channel = cc,
                         !.dim_head = cc[1] \div cfg.num_heads,
                         !.output_block_connecters_in = Append(@, con),
                         !.output_blocks = Append(@, Sequential(layers)),
                         !.block_idx = IF lastOfLevel THEN 0 ELSE @ + 1,
                         !.level_idx = IF lastOfLevel THEN @ - 1 ELSE @,
                         !.pc = IF lastOfLevel /\ s.level_idx = 0
                                THEN "out" ELSE "output_blocks"]

\* the final projection
Out0D(s) ==
    LET cfg == s.cfg
    IN [s EXCEPT !.out =
                     Sequential(<<Normalization(s.current_channel[1]),
                                  Linear_MultiDim(s.current_channel,
                                                  <<cfg.output_channels, 1, 1>>)>>),
                 !.pc = "built"]

----------------------------------------------------------------------------
(* UNetModel2D.forward, and UNetModel0D_MultiDim.forward, whose text is    *)
(* the same.  A feature tensor is its channel count and its spatial shape  *)
(* (for the multi-dimensional tower: its second dimension and 1); ok =     *)
(* FALSE is the error a layer raises on an input whose channel count is    *)
(* not the one it declares.  `applied` lists the modules the call has      *)
(* evaluated, in order.                                                    *)

Tensor(C, H, W) == [ok |-> TRUE, C |-> C, H |-> H, W |-> W]

ShapeError == [ok |-> FALSE, C |-> 0, H |-> 0, W |-> 0]

\* output size of a 3x3 convolution with stride 2 and padding 1
DownSize(n) == ((n + 2 * 1 - 3) \div 2) + 1

\* UpSize without the interpolation
UpSizeNoInterpolate(n) == n

\* output size of F.interpolate(scale_factor=2) followed by a 3x3
\* convolution with padding 1
UpSize(n) == 2 * n

\* np.array(shape).prod()
Prod(shape) == shape[1] * shape[2] * shape[3]

\* one layer applied to a tensor; a multi-dimensional layer reshapes its
\* input to its flat width, which any input of that many elements allows
ApplyLayer(layer, t) ==
    IF layer.type \in {"FCBlock_MultiDim", "Linear_MultiDim"}
    THEN IF ~t.ok \/ t.C * t.H * t.W # Prod(layer.channels)
         THEN ShapeError
         ELSE Tensor(layer.out_channels[1], layer.out_channels[2], layer.out_channels[3])
    ELSE IF ~t.ok \/ t.C # layer.channels
    THEN ShapeError
    ELSE CASE layer.type = "Downsample" ->
                  Tensor(layer.out_channels, DownSize(t.H), DownSize(t.W))
           [] layer.type = "Upsample" ->
                  Tensor(layer.out_channels, UpSize(t.H), UpSize(t.W))
           [] OTHER ->
                  Tensor(layer.out_channels, t.H, t.W)

\* the layers of a sequential module applied in order
RECURSIVE ApplySequential(_, _)
ApplySequential(layers, t) ==
    IF layers = <<>>
    THEN t
    ELSE ApplySequential(Tail(layers), ApplyLayer(layers[1], t))

\* th.cat([h, skip], dim=1)
Cat(h, skip) ==
    IF h.ok /\ skip.ok /\ h.H = skip.H /\ h.W = skip.W
    THEN Tensor(h.C + skip.C, h.H, h.W)
    ELSE ShapeError

\* entry of forward on an input of the declared channel count
ForwardEnter(s, H, W) ==
    [s EXCEPT !.x = Tensor(s.cfg.input_channels, H, W),
              !.h = Tensor(s.cfg.input_channels, H, W),
              !.hs = <<>>,
              !.step = 1,
              !.applied = <<>>,
              !.pc = "fwd_input_blocks"]

\* ForwardInputBlock followed by the connector-attention stage beside the
\* pipeline, when there is one
ForwardInputBlockWithConnecter(s) ==
    LET module == s.input_blocks[s.step]
        con == s.input_block_connecters_in[s.step]
        h == ApplySequential(module.layers \o con.layers, s.h)
    IN IF ~h.ok
       THEN Raise(s, "RuntimeError")
       ELSE [s EXCEPT !.h = h,
                      !.hs = Append(@, h),
                      !.applied =
                          Append(@, <<"input_blocks", s.step>>) \o
                          (IF con.none THEN <<>>
                           ELSE <<<<"input_block_connecters_in", s.step>>>>),
                      !.step = IF s.step = Len(s.input_blocks) THEN 0 ELSE @ + 1,
                      !.pc = IF s.step = Len(s.input_blocks)
                             THEN "fwd_middle_block" ELSE "fwd_input_blocks"]

\* one iteration of the loop over input_blocks
ForwardInputBlock(s) ==
    LET module == s.input_blocks[s.step]
        h == ApplySequential(module.layers, s.h)
    IN IF ~h.ok
       THEN Raise(s, "RuntimeError")
       ELSE [s EXCEPT !.h = h,
                      !.hs = Append(@, h),
                      !.applied = Append(@, <<"input_blocks", s.step>>),
                      !.step = IF s.step = Len(s.input_blocks) THEN 0 ELSE @ + 1,
                      !.pc = IF s.step = Len(s.input_blocks)
                             THEN "fwd_middle_block" ELSE "fwd_input_blocks"]

\* the bottleneck
ForwardMiddleBlock(s) ==
    LET h == ApplySequential(s.middle_block.layers, s.h)
    IN IF ~h.ok
       THEN Raise(s, "RuntimeError")
       ELSE [s EXCEPT !.h = h,
                      !.applied = Append(@, <<"middle_block", 1>>),
                      !.step = 1,
                      !.pc = "fwd_output_blocks"]

\* one iteration of the loop over output_blocks
ForwardOutputBlock(s) ==
    LET module == s.output_blocks[s.step]
    IN IF s.hs = <<>>
       THEN Raise(s, "IndexError: pop from empty hs")
       ELSE LET cat == Cat(s.h, Last(s.hs))
                h == ApplySequential(module.layers, cat)
            IN IF ~cat.ok
               THEN Raise(s, "RuntimeError: cat")
               ELSE IF ~h.ok
               THEN Raise(s, "RuntimeError")
               ELSE [s EXCEPT !.h = h,
                              !.hs = Front(@),
                              !.applied = Append(@, <<"output_blocks", s.step>>),
                              !.step = IF s.step = Len(s.output_blocks) THEN 0 ELSE @ + 1,
                              !.pc = IF s.step = Len(s.output_blocks)
                                     THEN "fwd_out" ELSE "fwd_output_blocks"]

\* return self.out(h)
ForwardOut(s) ==
    LET h == ApplySequential(s.out.layers, s.h)
    IN IF ~h.ok
       THEN Raise(s, "RuntimeError")
       ELSE [s EXCEPT !.h = h,
                      !.applied = Append(@, <<"out", 1>>),
                      !.pc = "returned"]

\* the next piece of forward
ForwardStep(s) ==
    CASE s.pc = "fwd_input_blocks" -> ForwardInputBlock(s)
      [] s.pc = "fwd_middle_block" -> ForwardMiddleBlock(s)
      [] s.pc = "fwd_output_blocks" -> ForwardOutputBlock(s)
      [] s.pc = "fwd_out" -> ForwardOut(s)

\* forward run until it returns or raises
RECURSIVE RunForward(_)
RunForward(s) ==
    IF s.pc \in {"returned", "error"} THEN s ELSE RunForward(ForwardStep(s))

----------------------------------------------------------------------------
(* The constructors run to completion: the towers UNetModelVD holds.       *)

\* the next piece of UNetModel2D.__init__
InitStep2D(s) ==
    CASE s.pc = "connecters_out" ->
            IF s.block_idx < s.cfg.num_noattn_blocks_connector[s.level_idx + 1]
            THEN ConnecterBlock2D(s) ELSE ConnecterLevelEnd2D(s)
      [] s.pc = "input_init" -> InputInit2D(s)
      [] s.pc = "input_blocks" ->
            IF s.block_idx < s.cfg.num_noattn_blocks[s.level_idx + 1]
            THEN InputBlock2D(s) ELSE InputLevelEnd2D(s)
      [] s.pc = "middle_block" -> MiddleBlock2D(s)
      [] s.pc = "output_blocks" -> OutputBlock2D(s)
      [] s.pc = "out" -> Out2D(s)

\* the next piece of UNetModel0D_MultiDim.__init__
InitStep0D(s) ==
    CASE s.pc = "connecters_out" ->
            IF s.block_idx < s.cfg.num_noattn_blocks_connector[s.level_idx + 1]
            THEN ConnecterBlock0D(s) ELSE ConnecterLevelEnd0D(s)
      [] s.pc = "input_init" -> InputInit0D(s)
      [] s.pc = "input_blocks" ->
            IF s.block_idx < s.cfg.num_noattn_blocks[s.level_idx + 1]
            THEN InputBlock0D(s) ELSE InputLevelEnd0D(s)
      [] s.pc = "middle_block" -> MiddleBlock0D(s)
      [] s.pc = "output_blocks" -> OutputBlock0D(s)
      [] s.pc = "out" -> Out0D(s)

RECURSIVE RunInit(_)
RunInit(s) ==
    IF s.pc \in {"built", "error"}
    THEN s
    ELSE RunInit(IF s.cfg.kind = "2d" THEN InitStep2D(s) ELSE InitStep0D(s))

\* get_model()(cfg): the tower a configuration constructs
Construct(cfg) ==
    RunInit(IF cfg.kind = "2d" THEN NewUNet2D(cfg) ELSE NewUNet0D(cfg))

----------------------------------------------------------------------------
(* UNetModelVD.forward.  One call is a record.  The Python lists x, h_con, *)
(* h and the entries of hs are references into `heap`, so that two names   *)
(* of one list see each other's item assignments.  A tensor is its shape   *)
(* and the sequence of stages (in postfix order) that computed it.         *)

Tags == {"image", "video", "text", "audio"}

\* a tag no dispatch chain knows
OtherTag == "depth"

\* shapes of the samples a caller passes, by modality
ImageShape == <<2, 3, 4, 4>>

VideoShape == <<2, 3, 2, 4, 4>>

TextShape == <<2, 3>>

AudioShape == <<2, 3, 4, 4>>

InputShape(tag) ==
    CASE tag = "video" -> VideoShape
      [] tag = "text" -> TextShape
      [] tag = "audio" -> AudioShape
      [] OTHER -> ImageShape

\* one stage: its list, its tower, its index in the list, the tower whose
\* timestep embedding it is given, the context it is given
Token(name, tower, idx, emb, ctx) == <<name, tower, idx, emb, ctx>>

\* the sample a caller passes: content `id` in the shape of its modality
Sample(tag, id) ==
    [shape |-> InputShape(tag), val |-> <<Token("x", tag, id, "", 0)>>]

\* module(h, emb, context): a pipeline of a tower applied to a tensor
Stage(t, name, tower, idx, emb, ctx) ==
    [t EXCEPT !.val = Append(@, Token(name, tower, idx, emb, ctx))]

\* con_in(h, context=h_con): a connector-attention stage applied to a tensor
StageCon(t, name, tower, idx, c) ==
    [t EXCEPT !.val = @ \o c.val \o <<Token(name, tower, idx, "", 0)>>]

\* th.cat([h, skip], dim=1)
CatVD(t, skip) ==
    [t EXCEPT !.val = @ \o skip.val \o <<Token("cat", "", 0, "", 0)>>]

\* x[:, :, None, None]
Unsqueeze2(t) == [t EXCEPT !.shape = @ \o <<1, 1>>]

\* .squeeze(-1)
SqueezeLast(t) ==
    IF Len(t.shape) > 0 /\ Last(t.shape) = 1
    THEN [t EXCEPT !.shape = Front(@)]
    ELSE t

\* rearrange(h, 'b c t h w -> (b t) c h w')
FlattenTime(t) ==
    [t EXCEPT !.shape = <<t.shape[1] * t.shape[3], t.shape[2], t.shape[4], t.shape[5]>>,
              !.val = Append(@, Token("flatten", "", t.shape[3], "", 0))]

\* rearrange(out, '(b t) c h w -> b c t h w', t=num_frames)
RestoreTime(t, num_frames) ==
    [t EXCEPT !.shape = <<t.shape[1] \div num_frames, t.shape[2], num_frames,
                          t.shape[3], t.shape[4]>>,
              !.val = Append(@, Token("restore", "", num_frames, "", 0))]

\* mean over every axis after the channel axis, then unsqueeze(1)
Pool(t) ==
    [shape |-> <<t.shape[1], 1, t.shape[2]>>,
     val |-> Append(t.val, Token(IF Len(t.shape) = 5 THEN "mean3" ELSE "mean2",
                                 "", 0, "", 0))]

\* h / th.norm(h, dim=-1, keepdim=True)
Normalize(t) == [t EXCEPT !.val = Append(@, Token("normalize", "", 0, "", 0))]

\* an absent optional argument, a given one
None == <<>>

Some(v) == <<v>>

\* weights are multiples of 1/WeightDen; a context is kept multiplied by it
WeightDen == 2

\* Dispatch with an else branch that falls through to the image tower
DispatchNoRaise(tag) ==
    CASE tag = "audio" -> [tower |-> "audio", emb |-> "audio"]
      [] tag = "text" -> [tower |-> "text", emb |-> "text"]
      [] OTHER -> [tower |-> "image", emb |-> "image"]

\* Dispatch whose text branch passes the image tower's embedding
DispatchTextWithImageEmb(tag) ==
    CASE tag = "audio" -> [tower |-> "audio", emb |-> "audio"]
      [] tag \in {"video", "image"} -> [tower |-> "image", emb |-> "image"]
      [] tag = "text" -> [tower |-> "text", emb |-> "image"]
      [] OTHER -> [tower |-> "raise", emb |-> ""]

\* the branch the if/elif chain of a dispatch point takes: the tower whose
\* module is called and the tower whose embedding it is given ("raise": the
\* else branch)
Dispatch(tag) ==
    CASE tag = "audio" -> [tower |-> "audio", emb |-> "audio"]
      [] tag \in {"video", "image"} -> [tower |-> "image", emb |-> "image"]
      [] tag = "text" -> [tower |-> "text", emb |-> "text"]
      [] OTHER -> [tower |-> "raise", emb |-> ""]

\* the state on entry of forward
NewVD(towers, xtype, ids, c0, c1, c2, mixed_ratio, mixed_ratio_c2) ==
    [pc |-> "conditioning",
     err |-> "",
     towers |-> towers,
     xtype |-> xtype,
     ids |-> ids,
     c0 |-> c0, c1 |-> c1, c2 |-> c2,
     mixed_ratio |-> mixed_ratio, mixed_ratio_c2 |-> mixed_ratio_c2,
     context |-> 0,
     contexts |-> <<>>,
     heap |-> <<[i \in 1..Len(xtype) |-> Sample(xtype[i], ids[i])]>>,
     x |-> 1,
     h_con |-> 0,
     h |-> 0,
     hs |-> <<>>,
     step |-> 0,
     out_all |-> <<>>,
     snapshots |-> <<>>,
     concatenated |-> <<>>]

\* number of samples
BatchSize(s) == Len(s.xtype)

\* Conditioning with the two-source weights on the other operands
ConditioningSwapped(s) ==
    IF s.c2 # None /\ s.c1 # None
    THEN IF s.mixed_ratio = None \/ s.mixed_ratio_c2 = None
         THEN Raise(s, "TypeError")
         ELSE [s EXCEPT !.context =
                            s.c0[1] * (WeightDen - s.mixed_ratio[1] - s.mixed_ratio_c2[1])
                            + s.c1[1] * s.mixed_ratio[1]
                            + s.c2[1] * s.mixed_ratio_c2[1],
                        !.pc = "prepare"]
    ELSE IF s.c1 # None
    THEN IF s.mixed_ratio = None
         THEN Raise(s, "TypeError")
         ELSE [s EXCEPT !.context =
                            s.c0[1] * (WeightDen - s.mixed_ratio[1])
                            + s.c1[1] * s.mixed_ratio[1],
                        !.pc = "prepare"]
    ELSE [s EXCEPT !.context = s.c0[1] * WeightDen, !.pc = "prepare"]

\* Conditioning that also mixes in a c2 given without c1
ConditioningThirdAlone(s) ==
    IF s.c2 # None /\ s.c1 # None
    THEN IF s.mixed_ratio = None \/ s.mixed_ratio_c2 = None
         THEN Raise(s, "TypeError")
         ELSE [s EXCEPT !.context =
                            s.c0[1] * (WeightDen - s.mixed_ratio[1] - s.mixed_ratio_c2[1])
                            + s.c1[1] * s.mixed_ratio[1]
                            + s.c2[1] * s.mixed_ratio_c2[1],
                        !.pc = "prepare"]
    ELSE IF s.c1 # None
    THEN IF s.mixed_ratio = None
         THEN Raise(s, "TypeError")
         ELSE [s EXCEPT !.context =
                            s.c0[1] * s.mixed_ratio[1]
                            + s.c1[1] * (WeightDen - s.mixed_ratio[1]),
                        !.pc = "prepare"]
    ELSE IF s.c2 # None
    THEN IF s.mixed_ratio_c2 = None
         THEN Raise(s, "TypeError")
         ELSE [s EXCEPT !.context =
                            s.c0[1] * (WeightDen - s.mixed_ratio_c2[1])
                            + s.c2[1] * s.mixed_ratio_c2[1],
                        !.pc = "prepare"]
    ELSE [s EXCEPT !.context = s.c0[1] * WeightDen, !.pc = "prepare"]

\* the combined context
Conditioning(s) ==
    IF s.c2 # None /\ s.c1 # None
    THEN IF s.mixed_ratio = None \/ s.mixed_ratio_c2 = None
         THEN Raise(s, "TypeError")
         ELSE [s EXCEPT !.context =
                            s.c0[1] * (WeightDen - s.mixed_ratio[1] - s.mixed_ratio_c2[1])
                            + s.c1[1] * s.mixed_ratio[1]
                            + s.c2[1] * s.mixed_ratio_c2[1],
                        !.pc = "prepare"]
    ELSE IF s.c1 # None
    THEN IF s.mixed_ratio = None
         THEN Raise(s, "TypeError")
         ELSE [s EXCEPT !.context =
                            s.c0[1] * s.mixed_ratio[1]
                            + s.c1[1] * (WeightDen - s.mixed_ratio[1]),
                        !.pc = "prepare"]
    ELSE [s EXCEPT !.context = s.c0[1] * WeightDen, !.pc = "prepare"]

\* hs, the list x, the text samples' trailing axes, the list h_con
PrepareInputs(s) ==
    LET x == [i \in 1..BatchSize(s) |->
                 IF s.xtype[i] = "text"
                 THEN Unsqueeze2(s.heap[s.x][i]) ELSE s.heap[s.x][i]]
    IN [s EXCEPT !.hs = <<>>,
                 !.heap = <<x, x>>,
                 !.x = 1,
                 !.h_con = 2,
                 !.step = 1,
                 !.pc = "connecters_out"]

\* the result of a dispatch point for one sample
Returned(t) == [err |-> "", t |-> t]

Raised(exception) == [err |-> exception, t |-> [shape |-> <<>>, val |-> <<>>]]

\* the first exception raised by a loop over the samples ("" if none)
FirstError(results) ==
    IF \A i \in DOMAIN results : results[i].err = ""
    THEN ""
    ELSE results[CHOOSE i \in DOMAIN results :
                    /\ results[i].err # ""
                    /\ \A j \in DOMAIN results : j < i => results[j].err = ""].err

\* number of iterations of a zip over one list of each tower
ZipLen(s, list) ==
    Min(Len(s.towers.image[list]),
        Min(Len(s.towers.text[list]), Len(s.towers.audio[list])))

\* body of the connector loop for sample i at connector pipeline k
ConnectorSample(s, k, i) ==
    LET d == Dispatch(s.xtype[i])
    IN IF d.tower = "raise"
       THEN Raised("RuntimeError: No active exception to reraise")
       ELSE Returned(Stage(s.heap[s.h_con][i], "connecters_out", d.tower, k, d.emb,
                           s.context))

\* one iteration of the loop over the towers' connecters_out
ConnectorLevel(s) ==
    LET results == [i \in 1..BatchSize(s) |-> ConnectorSample(s, s.step, i)]
        err == FirstError(results)
        n == ZipLen(s, "connecters_out")
    IN IF err # ""
       THEN Raise(s, err)
       ELSE [s EXCEPT !.heap[s.h_con] = [i \in 1..BatchSize(s) |-> results[i].t],
                      !.step = IF s.step >= n THEN 0 ELSE @ + 1,
                      !.pc = IF s.step >= n THEN "pool" ELSE @]

\* pooling and normalization of h_con, context = [context, context], h = x
ConnectorPool(s) ==
    [s EXCEPT !.heap[s.h_con] =
                  [i \in 1..BatchSize(s) |-> Normalize(Pool(s.heap[s.h_con][i]))],
              !.contexts = <<s.context, s.context>>,
              !.h = s.x,
              !.step = 1,
              !.pc = "input_blocks"]

\* module(h[i], emb, context[i]) of the tower sample i is dispatched to
MainSample(s, t, name, k, i) ==
    LET d == Dispatch(s.xtype[i])
    IN IF d.tower = "raise"
       THEN Raised("RuntimeError: No active exception to reraise")
       ELSE IF i > Len(s.contexts)
       THEN Raised("IndexError: list index out of range")
       ELSE Returned(Stage(t, name, d.tower, k, d.emb, s.contexts[i]))

\* ConnectorInSample attending to the pooled features of the first sample
ConnectorInSampleFirst(s, t, name, k, i) ==
    LET d == Dispatch(s.xtype[i])
    IN IF d.tower = "raise"
       THEN Raised("RuntimeError: No active exception to reraise")
       ELSE IF s.towers[d.tower][name][k].none
       THEN Raised("TypeError: 'NoneType' object is not callable")
       ELSE Returned(StageCon(t, name, d.tower, k, s.heap[s.h_con][1]))

\* con_in(h[i], context=h_con[i]) of the tower sample i is dispatched to
ConnectorInSample(s, t, name, k, i) ==
    LET d == Dispatch(s.xtype[i])
    IN IF d.tower = "raise"
       THEN Raised("RuntimeError: No active exception to reraise")
       ELSE IF s.towers[d.tower][name][k].none
       THEN Raised("TypeError: 'NoneType' object is not callable")
       ELSE Returned(StageCon(t, name, d.tower, k, s.heap[s.h_con][i]))

\* the samples after the loop `if i_con_in is not None: for i, xtype_i ...`
WithConnectorIn(s, results, name, k) ==
    IF FirstError(results) # "" \/ s.towers.image[name][k].none
    THEN results
    ELSE [i \in 1..BatchSize(s) |-> ConnectorInSample(s, results[i].t, name, k, i)]

\* EncoderLevel that pools and normalizes h_con again at every level
EncoderLevelPoolAgain(s) ==
    LET k == s.step
        main == [i \in 1..BatchSize(s) |->
                    MainSample(s, s.heap[s.h][i], "input_blocks", k, i)]
        results == WithConnectorIn(s, main, "input_block_connecters_in", k)
        err == FirstError(results)
        h == Len(s.heap) + 1
        n == Min(ZipLen(s, "input_blocks"), ZipLen(s, "input_block_connecters_in"))
        list == [i \in 1..BatchSize(s) |-> results[i].t]
    IN IF err # ""
       THEN Raise(s, err)
       ELSE [s EXCEPT !.heap = Append([@ EXCEPT ![s.h_con] = [i \in 1..BatchSize(s) |-> Normalize(Pool(@[i]))]], list),
                      !.h = h,
                      !.hs = Append(@, h),
                      !.snapshots = Append(@, list),
                      !.step = IF k >= n THEN 0 ELSE @ + 1,
                      !.pc = IF k >= n THEN "middle_block" ELSE @]

\* one iteration of the loop over the towers' input_blocks
EncoderLevel(s) ==
    LET k == s.step
        main == [i \in 1..BatchSize(s) |->
                    MainSample(s, s.heap[s.h][i], "input_blocks", k, i)]
        results == WithConnectorIn(s, main, "input_block_connecters_in", k)
        err == FirstError(results)
        h == Len(s.heap) + 1
        n == Min(ZipLen(s, "input_blocks"), ZipLen(s, "input_block_connecters_in"))
        list == [i \in 1..BatchSize(s) |-> results[i].t]
    IN IF err # ""
       THEN Raise(s, err)
       ELSE [s EXCEPT !.heap = Append(@, list),
                      !.h = h,
                      !.hs = Append(@, h),
                      !.snapshots = Append(@, list),
                      !.step = IF k >= n THEN 0 ELSE @ + 1,
                      !.pc = IF k >= n THEN "middle_block" ELSE @]

\* the bottleneck, assigned into the list h item by item
Bottleneck(s) ==
    LET results == [i \in 1..BatchSize(s) |->
                       MainSample(s, s.heap[s.h][i], "middle_block", 0, i)]
        err == FirstError(results)
    IN IF err # ""
       THEN Raise(s, err)
       ELSE [s EXCEPT !.heap[s.h] = [i \in 1..BatchSize(s) |-> results[i].t],
                      !.step = 1,
                      !.pc = "output_blocks"]

\* one iteration of the loop over the towers' output_blocks
DecoderLevel(s) ==
    LET k == s.step
        n == Min(ZipLen(s, "output_blocks"), ZipLen(s, "output_block_connecters_in"))
    IN IF s.hs = <<>>
       THEN Raise(s, "IndexError: pop from empty list")
       ELSE LET temp == Last(s.hs)
                main == [i \in 1..BatchSize(s) |->
                            MainSample(s, CatVD(s.heap[s.h][i], s.heap[temp][i]),
                                       "output_blocks", k, i)]
                results == WithConnectorIn(s, main, "output_block_connecters_in", k)
                err == FirstError(results)
            IN IF err # ""
               THEN Raise(s, err)
               ELSE [s EXCEPT !.heap[s.h] = [i \in 1..BatchSize(s) |-> results[i].t],
                              !.hs = Front(@),
                              !.concatenated = Append(@, s.heap[temp]),
                              !.step = IF k >= n THEN 0 ELSE @ + 1,
                              !.pc = IF k >= n THEN "out" ELSE @]

\* the branch of the final projection for sample i; `out` keeps its value
\* when no branch matches
OutSample(s, i, out) ==
    LET t == s.heap[s.h][i]
        tag == s.xtype[i]
    IN CASE tag = "video" ->
              IF Len(t.shape) # 5
              THEN Raised("EinopsError")
              ELSE Returned(RestoreTime(Stage(FlattenTime(t), "out", "image", 0, "", 0),
                                        t.shape[3]))
         [] tag = "image" -> Returned(Stage(t, "out", "image", 0, "", 0))
         [] tag = "text" ->
              Returned(SqueezeLast(SqueezeLast(Stage(t, "out", "text", 0, "", 0))))
         [] tag = "audio" -> Returned(Stage(t, "out", "audio", 0, "", 0))
         [] OTHER ->
              IF out = None
              THEN Raised("UnboundLocalError")
              ELSE Returned(out[1])

\* the loop of the final projection from sample i on
RECURSIVE OutLoop(_, _, _, _)
OutLoop(s, i, out, out_all) ==
    IF i > BatchSize(s)
    THEN [err |-> "", out_all |-> out_all]
    ELSE LET r == OutSample(s, i, out)
         IN IF r.err # ""
            THEN [err |-> r.err, out_all |-> out_all]
            ELSE OutLoop(s, i + 1, Some(r.t), Append(out_all, r.t))

\* the final projection and the return
FinalProjection(s) ==
    LET r == OutLoop(s, 1, None, <<>>)
    IN IF r.err # ""
       THEN Raise(s, r.err)
       ELSE [s EXCEPT !.out_all = r.out_all, !.pc = "done"]

----------------------------------------------------------------------------
(* The towers that are built and called.                                   *)

\* a flag sequence of length n: all set, or all set but the last (the default)
FlagPatterns(n) ==
    {[i \in 1..n |-> TRUE], [i \in 1..n |-> i < n]}

\* the connector schedule: the default (1, 2, 4) cut to n levels, one block each
ConnectorMult(n) == [i \in 1..n |-> Pow2(i - 1)]

ConnectorBlocks(n) == [i \in 1..n |-> 1]

\* no tower, no call
NoUNet == [NewUNet2D(Config("none", <<1>>, <<1>>, <<TRUE>>, <<TRUE>>,
                            <<1>>, <<1>>, FALSE, <<>>, <<>>)) EXCEPT !.pc = "none"]

NoVD == [pc |-> "none"]

NoPair == <<NoVD, NoVD>>

\* no layer-level call
NoCall == [pc |-> "none"]

----------------------------------------------------------------------------
(* Actions on a UNetModel2D.                                               *)

ConnecterBlock ==
    /\ unet.cfg.kind = "2d"
    /\ unet.pc = "connecters_out"
    /\ unet.block_idx < unet.cfg.num_noattn_blocks_connector[unet.level_idx + 1]
    /\ unet' = ConnecterBlock2D(unet)
    /\ UNCHANGED <<vd, pair, tes, res, norm>>

ConnecterLevelEnd ==
    /\ unet.cfg.kind = "2d"
    /\ unet.pc = "connecters_out"
    /\ unet.block_idx = unet.cfg.num_noattn_blocks_connector[unet.level_idx + 1]
    /\ unet' = ConnecterLevelEnd2D(unet)
    /\ UNCHANGED <<vd, pair, tes, res, norm>>

InputInit ==
    /\ unet.cfg.kind = "2d"
    /\ unet.pc = "input_init"
    /\ unet' = InputInit2D(unet)
    /\ UNCHANGED <<vd, pair, tes, res, norm>>

InputBlock ==
    /\ unet.cfg.kind = "2d"
    /\ unet.pc = "input_blocks"
    /\ unet.block_idx < unet.cfg.num_noattn_blocks[unet.level_idx + 1]
    /\ unet' = InputBlock2D(unet)
    /\ UNCHANGED <<vd, pair, tes, res, norm>>

InputLevelEnd ==
    /\ unet.cfg.kind = "2d"
    /\ unet.pc = "input_blocks"
    /\ unet.block_idx = unet.cfg.num_noattn_blocks[unet.level_idx + 1]
    /\ unet' = InputLevelEnd2D(unet)
    /\ UNCHANGED <<vd, pair, tes, res, norm>>

MiddleBlock ==
    /\ unet.cfg.kind = "2d"
    /\ unet.pc = "middle_block"
    /\ unet' = MiddleBlock2D(unet)
    /\ UNCHANGED <<vd, pair, tes, res, norm>>

OutputBlock ==
    /\ unet.cfg.kind = "2d"
    /\ unet.pc = "output_blocks"
    /\ unet' = OutputBlock2D(unet)
    /\ UNCHANGED <<vd, pair, tes, res, norm>>

Out ==
    /\ unet.cfg.kind = "2d"
    /\ unet.pc = "out"
    /\ unet' = Out2D(unet)
    /\ UNCHANGED <<vd, pair, tes, res, norm>>

Forward ==
    /\ unet.cfg.kind = "2d"
    /\ unet.pc = "built"
    /\ \E H \in 1..MaxSize, W \in 1..MaxSize : unet' = ForwardEnter(unet, H, W)
    /\ UNCHANGED <<vd, pair, tes, res, norm>>

FwdInputBlock ==
    /\ unet.pc = "fwd_input_blocks"
    /\ unet' = ForwardInputBlock(unet)
    /\ UNCHANGED <<vd, pair, tes, res, norm>>

FwdMiddleBlock ==
    /\ unet.pc = "fwd_middle_block"
    /\ unet' = ForwardMiddleBlock(unet)
    /\ UNCHANGED <<vd, pair, tes, res, norm>>

FwdOutputBlock ==
    /\ unet.pc = "fwd_output_blocks"
    /\ unet' = ForwardOutputBlock(unet)
    /\ UNCHANGED <<vd, pair, tes, res, norm>>

FwdOut ==
    /\ unet.pc = "fwd_out"
    /\ unet' = ForwardOut(unet)
    /\ UNCHANGED <<vd, pair, tes, res, norm>>

----------------------------------------------------------------------------
(* Actions on a UNetModel0D_MultiDim under construction.                   *)

ConnecterBlockMD ==
    /\ unet.cfg.kind = "0dmd"
    /\ unet.pc = "connecters_out"
    /\ unet.block_idx < unet.cfg.num_noattn_blocks_connector[unet.level_idx + 1]
    /\ unet' = ConnecterBlock0D(unet)
    /\ UNCHANGED <<vd, pair, tes, res, norm>>

ConnecterLevelEndMD ==
    /\ unet.cfg.kind = "0dmd"
    /\ unet.pc = "connecters_out"
    /\ unet.block_idx = unet.cfg.num_noattn_blocks_connector[unet.level_idx + 1]
    /\ unet' = ConnecterLevelEnd0D(unet)
    /\ UNCHANGED <<vd, pair, tes, res, norm>>

InputInitMD ==
    /\ unet.cfg.kind = "0dmd"
    /\ unet.pc = "input_init"
    /\ unet' = InputInit0D(unet)
    /\ UNCHANGED <<vd, pair, tes, res, norm>>

InputBlockMD ==
    /\ unet.cfg.kind = "0dmd"
    /\ unet.pc = "input_blocks"
    /\ unet.block_idx < unet.cfg.num_noattn_blocks[unet.level_idx + 1]
    /\ unet' = InputBlock0D(unet)
    /\ UNCHANGED <<vd, pair, tes, res, norm>>

InputLevelEndMD ==
    /\ unet.cfg.kind = "0dmd"
    /\ unet.pc = "input_blocks"
    /\ unet.block_idx = unet.cfg.num_noattn_blocks[unet.level_idx + 1]
    /\ unet' = InputLevelEnd0D(unet)
    /\ UNCHANGED <<vd, pair, tes, res, norm>>

MiddleBlockMD ==
    /\ unet.cfg.kind = "0dmd"
    /\ unet.pc = "middle_block"
    /\ unet' = MiddleBlock0D(unet)
    /\ UNCHANGED <<vd, pair, tes, res, norm>>

OutputBlockMD ==
    /\ unet.cfg.kind = "0dmd"
    /\ unet.pc = "output_blocks"
    /\ unet' = OutputBlock0D(unet)
    /\ UNCHANGED <<vd, pair, tes, res, norm>>

OutMD ==
    /\ unet.cfg.kind = "0dmd"
    /\ unet.pc = "out"
    /\ unet' = Out0D(unet)
    /\ UNCHANGED <<vd, pair, tes, res, norm>>

----------------------------------------------------------------------------
(* Specifications.                                                         *)

\* a UNetModel2D about to be constructed from a configuration whose flag
\* sequences have one entry per level
Init ==
    /\ \E L \in 1..MaxLevels :
          \E cm \in SeqsOfLen(1..MaxMult, L), nb \in SeqsOfLen(0..MaxBlocks, L),
             wa \in FlagPatterns(L), wc \in FlagPatterns(L) :
              unet = NewUNet2D(Config("2d", cm, nb, wa, wc, ConnectorMult(1),
                                      ConnectorBlocks(1), FALSE, <<>>, <<>>))
    /\ vd = NoVD
    /\ pair = NoPair
    /\ tes = NoCall
    /\ res = NoCall
    /\ norm = NoCall

Next ==
    \/ ConnecterBlock
    \/ ConnecterLevelEnd
    \/ InputInit
    \/ InputBlock
    \/ InputLevelEnd
    \/ MiddleBlock
    \/ OutputBlock
    \/ Out
    \/ Forward
    \/ FwdInputBlock
    \/ FwdMiddleBlock
    \/ FwdOutputBlock
    \/ FwdOut

Spec == Init /\ [][Next]_vars

\* flag sequences of every length from one less to one more than the levels
FlagSeqs(L) == UNION {SeqsOfLen(BOOLEAN, n) : n \in (L - 1)..(L + 1)}

\* the default second dimension of every level
DefaultSecondDim(n) == [i \in 1..n |-> 4]

\* the constructor called for a configuration
NewUNet(cfg) == IF cfg.kind = "2d" THEN NewUNet2D(cfg) ELSE NewUNet0D(cfg)

\* either tower about to be constructed with the default widths (1, 2, 4,
\* ...) and flag sequences that may be shorter or longer than the channel
\* schedule
InitCfg ==
    /\ \E L \in 1..MaxLevels :
          \E kind \in {"2d", "0dmd"}, nb \in SeqsOfLen(0..MaxBlocks, L),
             wa \in FlagSeqs(L), wc \in FlagSeqs(L) :
              unet = NewUNet(Config(kind, ConnectorMult(L), nb, wa, wc,
                                    ConnectorMult(1), ConnectorBlocks(1), FALSE,
                                    DefaultSecondDim(L), DefaultSecondDim(1)))
    /\ vd = NoVD
    /\ pair = NoPair
    /\ tes = NoCall
    /\ res = NoCall
    /\ norm = NoCall

NextCfg ==
    \/ ConnecterBlock
    \/ ConnecterLevelEnd
    \/ InputInit
    \/ InputBlock
    \/ InputLevelEnd
    \/ MiddleBlock
    \/ OutputBlock
    \/ Out
    \/ ConnecterBlockMD
    \/ ConnecterLevelEndMD
    \/ InputInitMD
    \/ InputBlockMD
    \/ InputLevelEndMD
    \/ MiddleBlockMD
    \/ OutputBlockMD
    \/ OutMD

\* construction of either tower from configurations of any flag lengths
SpecCfg == InitCfg /\ [][NextCfg]_vars

----------------------------------------------------------------------------
(* Either tower built and called on its own.                               *)

\* second dimensions of a level: 1..MaxSecondDim
MaxSecondDim == 2

\* the connector schedule has one level or two
ConnectorLevels == {1, 2}

\* the default with_attn: attention at every level but the last
DefaultWithAttn(n) == [i \in 1..n |-> i < n]

\* x of shape (batch, input_channels, 1, 1) handed to
\* UNetModel0D_MultiDim.forward
ForwardMD ==
    /\ unet.cfg.kind = "0dmd"
    /\ unet.pc = "built"
    /\ unet' = ForwardEnter(unet, 1, 1)
    /\ UNCHANGED <<vd, pair, tes, res, norm>>

\* either tower about to be constructed with the default widths (1, 2, 4,
\* ...), the default with_attn, any with_connector flags (one per level),
\* a connector schedule of one or two levels and, for the
\* multi-dimensional tower, a second dimension of 1 or MaxSecondDim at
\* every level
InitTowers ==
    /\ \E L \in 1..MaxLevels, Lc \in ConnectorLevels :
          \E nb \in SeqsOfLen(0..MaxBlocks, L), wc \in SeqsOfLen(BOOLEAN, L) :
              \/ unet = NewUNet2D(Config("2d", ConnectorMult(L), nb,
                                         DefaultWithAttn(L), wc,
                                         ConnectorMult(Lc), ConnectorBlocks(Lc),
                                         FALSE, <<>>, <<>>))
              \/ \E sd \in SeqsOfLen({1, MaxSecondDim}, L) :
                    unet = NewUNet0D(Config("0dmd", ConnectorMult(L), nb,
                                            DefaultWithAttn(L), wc,
                                            ConnectorMult(Lc), ConnectorBlocks(Lc),
                                            FALSE, sd, DefaultSecondDim(Lc)))
    /\ vd = NoVD
    /\ pair = NoPair
    /\ tes = NoCall
    /\ res = NoCall
    /\ norm = NoCall

NextTowers ==
    \/ ConnecterBlock
    \/ ConnecterLevelEnd
    \/ InputInit
    \/ InputBlock
    \/ InputLevelEnd
    \/ MiddleBlock
    \/ OutputBlock
    \/ Out
    \/ ConnecterBlockMD
    \/ ConnecterLevelEndMD
    \/ InputInitMD
    \/ InputBlockMD
    \/ InputLevelEndMD
    \/ MiddleBlockMD
    \/ OutputBlockMD
    \/ OutMD
    \/ Forward
    \/ ForwardMD
    \/ FwdInputBlock
    \/ FwdMiddleBlock
    \/ FwdOutputBlock
    \/ FwdOut

\* construction of either tower followed by a call of its own forward
SpecTowers == InitTowers /\ [][NextTowers]_vars

----------------------------------------------------------------------------
(* Calls of UNetModelVD.forward.                                           *)

\* number of samples of a call: 1..MaxBatch
MaxBatch == 4

\* the schedule of the three towers
VDConfig(kind) ==
    Config(kind, <<1, 2>>, <<1, 1>>, <<TRUE, FALSE>>, <<TRUE, FALSE>>, <<1>>, <<1>>, FALSE, <<4, 4>>, <<4>>)

VDTowers ==
    [image |-> Construct(VDConfig("2d")),
     text |-> Construct(VDConfig("0dmd")),
     audio |-> Construct(VDConfig("2d"))]

\* sample i of a call has content i
Ids(n) == [i \in 1..n |-> i]

\* an optional weight: absent, or a multiple of 1/WeightDen (also above 1)
Weights == {None} \cup {Some(w) : w \in 0..(WeightDen + 1)}

\* a call of any modality list with c0 alone
CallAnyBatch ==
    \E n \in 1..MaxBatch :
        \E xtype \in SeqsOfLen(Tags \cup {OtherTag}, n) :
            vd = NewVD(VDTowers, xtype, Ids(n), Some(3), None, None, None, None)

\* a call on one sample with any choice of context sources and weights
CallAnyContext ==
    \E tag \in Tags, c1 \in {None, Some(5)}, c2 \in {None, Some(11)},
       w1 \in Weights, w2 \in Weights :
        vd = NewVD(VDTowers, <<tag>>, Ids(1), Some(3), c1, c2, w1, w2)

\* the configuration of a tower with its own block counts and connector flags
TowerConfig(kind, num_noattn_blocks, with_connector) ==
    Config(kind, <<1, 2>>, num_noattn_blocks, <<TRUE, FALSE>>, with_connector, <<1>>, <<1>>, FALSE, <<4, 4>>, <<4>>)

\* the block counts and the connector flags a tower may be configured with
BlockCounts == {<<1, 1>>, <<0, 1>>}

ConnectorFlags == SeqsOfLen(BOOLEAN, 2)

\* a call on one sample with c0 alone, on three towers that are configured
\* independently of each other
CallAnyTowers ==
    \E tag \in Tags :
        \E nbi \in BlockCounts, nbt \in BlockCounts, nba \in BlockCounts,
           wci \in ConnectorFlags, wct \in ConnectorFlags, wca \in ConnectorFlags :
            vd = NewVD([image |-> Construct(TowerConfig("2d", nbi, wci)),
                        text |-> Construct(TowerConfig("0dmd", nbt, wct)),
                        audio |-> Construct(TowerConfig("2d", nba, wca))],
                       <<tag>>, Ids(1), Some(3), None, None, None, None)

VDConditioning ==
    /\ vd.pc = "conditioning"
    /\ vd' = Conditioning(vd)
    /\ UNCHANGED <<unet, pair, tes, res, norm>>

VDPrepareInputs ==
    /\ vd.pc = "prepare"
    /\ vd' = PrepareInputs(vd)
    /\ UNCHANGED <<unet, pair, tes, res, norm>>

VDConnectorLevel ==
    /\ vd.pc = "connecters_out"
    /\ vd' = ConnectorLevel(vd)
    /\ UNCHANGED <<unet, pair, tes, res, norm>>

VDConnectorPool ==
    /\ vd.pc = "pool"
    /\ vd' = ConnectorPool(vd)
    /\ UNCHANGED <<unet, pair, tes, res, norm>>

VDEncoderLevel ==
    /\ vd.pc = "input_blocks"
    /\ vd' = EncoderLevel(vd)
    /\ UNCHANGED <<unet, pair, tes, res, norm>>

VDBottleneck ==
    /\ vd.pc = "middle_block"
    /\ vd' = Bottleneck(vd)
    /\ UNCHANGED <<unet, pair, tes, res, norm>>

VDDecoderLevel ==
    /\ vd.pc = "output_blocks"
    /\ vd' = DecoderLevel(vd)
    /\ UNCHANGED <<unet, pair, tes, res, norm>>

VDFinalProjection ==
    /\ vd.pc = "out"
    /\ vd' = FinalProjection(vd)
    /\ UNCHANGED <<unet, pair, tes, res, norm>>

InitVD ==
    /\ unet = NoUNet
    /\ CallAnyBatch \/ CallAnyContext \/ CallAnyTowers
    /\ pair = NoPair
    /\ tes = NoCall
    /\ res = NoCall
    /\ norm = NoCall

NextVD ==
    \/ VDConditioning
    \/ VDPrepareInputs
    \/ VDConnectorLevel
    \/ VDConnectorPool
    \/ VDEncoderLevel
    \/ VDBottleneck
    \/ VDDecoderLevel
    \/ VDFinalProjection

\* one call of UNetModelVD.forward
SpecVD == InitVD /\ [][NextVD]_vars

----------------------------------------------------------------------------
(* Two calls of UNetModelVD.forward side by side.                          *)

\* number of samples of each of the two calls: 1..MaxPairBatch
MaxPairBatch == 2

\* the contents a sample of the two calls may have
SampleIds == {1, 2}

\* the batches of the two calls: a tag and a content for every sample
PairBatches(n) == [xtype : SeqsOfLen(Tags, n), ids : SeqsOfLen(SampleIds, n)]

\* two batches have the same sample, with the same tag, at position i
AgreeAt(a, b, i) ==
    /\ i <= Len(a.xtype)
    /\ i <= Len(b.xtype)
    /\ a.xtype[i] = b.xtype[i]
    /\ a.ids[i] = b.ids[i]

PairCall(b) == NewVD(VDTowers, b.xtype, b.ids, Some(3), None, None, None, None)

\* the step of forward at the position of call s
VDStep(s) ==
    CASE s.pc = "conditioning" -> Conditioning(s)
      [] s.pc = "prepare" -> PrepareInputs(s)
      [] s.pc = "connecters_out" -> ConnectorLevel(s)
      [] s.pc = "pool" -> ConnectorPool(s)
      [] s.pc = "input_blocks" -> EncoderLevel(s)
      [] s.pc = "middle_block" -> Bottleneck(s)
      [] s.pc = "output_blocks" -> DecoderLevel(s)
      [] s.pc = "out" -> FinalProjection(s)
      [] OTHER -> s

\* both calls take their next step; a call that has returned or raised stays
PairForward ==
    /\ ~(pair[1].pc \in {"none", "done", "error"} /\ pair[2].pc \in {"none", "done", "error"})
    /\ pair' = <<VDStep(pair[1]), VDStep(pair[2])>>
    /\ UNCHANGED <<unet, vd, tes, res, norm>>

\* two calls with the same timesteps and context sources whose batches
\* have a sample in common
InitPair ==
    /\ unet = NoUNet
    /\ vd = NoVD
    /\ tes = NoCall
    /\ res = NoCall
    /\ norm = NoCall
    /\ \E n \in 1..MaxPairBatch, m \in 1..MaxPairBatch :
          \E a \in PairBatches(n), b \in PairBatches(m) :
              /\ \E i \in 1..MaxPairBatch : AgreeAt(a, b, i)
              /\ pair = <<PairCall(a), PairCall(b)>>

NextPair == PairForward

SpecPair == InitPair /\ [][NextPair]_vars

----------------------------------------------------------------------------
(* The pooling and normalization of one connector output, on numbers.      *)
(* The connector output of a sample is a (B, C, H, W) tensor of integers   *)
(* with B = 1; rationals are kept as numerators over a common denominator. *)

\* the entries of a connector output: -MaxFeature..MaxFeature
MaxFeature == 1

\* (B, C, H, W) of the connector output
ConnectorOutShape == <<1, 2, 2, 1>>

SumSq(v) == SumSeq([c \in 1..Len(v) |-> v[c] * v[c]])

\* a connector output about to be pooled; h[c] lists the H*W entries of
\* channel c
NewNorm(h) ==
    [pc |-> "pool", h |-> h, pooled |-> [num |-> <<>>, den |-> 1],
     out |-> [nan |-> FALSE, num |-> <<>>, sq |-> 1]]

\* h.mean(2).mean(2).unsqueeze(1): the mean of every channel, num[c] / den
PoolMean(s) ==
    [s EXCEPT !.pooled = [num |-> [c \in 1..Len(s.h) |-> SumSeq(s.h[c])],
                          den |-> ConnectorOutShape[3] * ConnectorOutShape[4]],
              !.pc = "normalize"]

\* h / th.norm(h, dim=-1, keepdim=True): entry c is num[c] / sqrt(sq); the
\* division of a zero vector by its norm 0 is 0/0, not a number
NormalizeL2(s) ==
    LET sq == SumSq(s.pooled.num)
    IN [s EXCEPT !.out = [nan |-> sq = 0, num |-> s.pooled.num, sq |-> sq],
                 !.pc = "done"]

NormPool ==
    /\ norm.pc = "pool"
    /\ norm' = PoolMean(norm)
    /\ UNCHANGED <<unet, vd, pair, tes, res>>

NormNormalize ==
    /\ norm.pc = "normalize"
    /\ norm' = NormalizeL2(norm)
    /\ UNCHANGED <<unet, vd, pair, tes, res>>

InitNorm ==
    /\ unet = NoUNet
    /\ vd = NoVD
    /\ pair = NoPair
    /\ tes = NoCall
    /\ res = NoCall
    /\ \E h \in SeqsOfLen(SeqsOfLen(-MaxFeature..MaxFeature,
                                     ConnectorOutShape[3] * ConnectorOutShape[4]),
                           ConnectorOutShape[2]) :
          norm = NewNorm(h)

NextNorm ==
    \/ NormPool
    \/ NormNormalize

\* the pooling and normalization of one connector output
SpecNorm == InitNorm /\ [][NextNorm]_vars

----------------------------------------------------------------------------
(* TimestepEmbedSequential.forward.  A tensor is its number of axes, its   *)
(* batch size B, its number of frames T (0 without a time axis) and, for   *)
(* every batch index (and frame), the sequence of stages that computed     *)
(* that slice.  A 5-dimensional tensor is indexed by <<b, t>>, a           *)
(* 4-dimensional one by its row.                                           *)

\* number of layers of a pipeline: 1..MaxLayers
MaxLayers == 3

\* batch size of an input: 1..MaxRows
MaxRows == 2

\* frames of a video input: 1..MaxFrames
MaxFrames == 2

\* a stage in the history of a slice: the class applied, the embedding row
\* and the context row it was given (0: none) and, for a stage that attends
\* across time, the histories of all frames it saw
Tok(stage, emb, ctx, frames) ==
    [stage |-> stage, b |-> 0, t |-> 0, emb |-> emb, ctx |-> ctx, frames |-> frames]

\* the slice (b, t) of an input
InputSlice(b, t) ==
    <<[stage |-> "x", b |-> b, t |-> t, emb |-> 0, ctx |-> 0, frames |-> <<>>]>>

\* a 5-dimensional input (b c t h w) and a 4-dimensional one (b c h w)
Video(B, T) ==
    [ndim |-> 5, B |-> B, T |-> T,
     data |-> [p \in (1..B) \X (1..T) |-> InputSlice(p[1], p[2])]]

Image(B) == [ndim |-> 4, B |-> B, T |-> 0, data |-> [r \in 1..B |-> InputSlice(r, 0)]]

\* x[:, :, t]: frame t of a 5-dimensional tensor
FrameOf(x, t) ==
    [ndim |-> 4, B |-> x.B, T |-> 0, data |-> [r \in 1..x.B |-> x.data[<<r, t>>]]]

\* rearrange(x, 'b c t h w -> (b t) c h w')
FramesToRows(x) ==
    [ndim |-> 4, B |-> x.B * x.T, T |-> 0,
     data |-> [r \in 1..(x.B * x.T) |->
                  x.data[<<((r - 1) \div x.T) + 1, ((r - 1) % x.T) + 1>>]]]

\* rearrange(x, '(b t) c h w -> b c t h w', t=num_frames)
RowsToFrames(x, num_frames) ==
    [ndim |-> 5, B |-> x.B \div num_frames, T |-> num_frames,
     data |-> [p \in (1..(x.B \div num_frames)) \X (1..num_frames) |->
                  x.data[(p[1] - 1) * num_frames + p[2]]]]

\* v.unsqueeze(1).repeat(1, num_frames, ...) then 'b t ... -> (b t) ...'
RepeatRows(v, num_frames) ==
    [r \in 1..(Len(v) * num_frames) |-> v[((r - 1) \div num_frames) + 1]]

\* v.repeat(num_frames, ...): the rows of v, num_frames times over
TileRows(v, num_frames) ==
    [r \in 1..(Len(v) * num_frames) |-> v[((r - 1) % Len(v)) + 1]]

\* a module applied to every row of a 4-dimensional tensor; emb and ctx are
\* the rows of its other arguments (<<>>: the argument is absent)
ApplyRows(x, class, emb, ctx) ==
    [x EXCEPT !.data = [r \in 1..x.B |->
        Append(x.data[r], Tok(class, IF emb = <<>> THEN 0 ELSE emb[r],
                                     IF ctx = <<>> THEN 0 ELSE ctx[r], <<>>))]]

\* the outcome of a module call
Result(x) == [err |-> "", x |-> x]

Failed(exception) == [err |-> exception, x |-> Image(0)]

\* ResBlock.forward(x, emb): a 5-dimensional x is flattened, computed on
\* with one embedding row per flattened row, and restored
ResBlockCall(x, emb) ==
    LET rows == IF x.ndim = 5 THEN FramesToRows(x) ELSE x
    IN IF emb = None
       THEN Failed("TypeError")
       ELSE IF Len(emb[1]) # rows.B
       THEN Failed("RuntimeError")
       ELSE LET out == ApplyRows(rows, "ResBlock", emb[1], <<>>)
            IN Result(IF x.ndim = 5 THEN RowsToFrames(out, x.T) ELSE out)

\* SpatioTemporalAttention.forward(x): every frame of a sample attends to
\* all frames of that sample
TemporalCall(x) ==
    IF x.ndim = 5
    THEN [x EXCEPT !.data = [p \in DOMAIN x.data |->
             Append(x.data[p], Tok("SpatioTemporalAttention", 0, 0,
                                   [t \in 1..x.T |-> x.data[<<p[1], t>>]]))]]
    ELSE ApplyRows(x, "SpatioTemporalAttention", <<>>, <<>>)

\* the classes the isinstance chain of forward knows, the members of the
\* paired unit the constructors build, and a module of another class
TimestepBlocks == {"ResBlock"}

PairedUnits == {"VideoSequential", "ModuleList"}

PairedMembers == <<"ResBlock", "SpatioTemporalAttention">>

LayerClasses ==
    {"ResBlock", "SpatialTransformer", "SpatioTemporalAttention", "ModuleList", "Conv2d",
     "CrossAttention"}

\* a call forward(x, emb, context) of a pipeline about to start
NewTES(layers, x, emb, context) ==
    [pc |-> "enter", err |-> "", layers |-> layers, k |-> 0,
     input |-> x, x |-> x, emb_arg |-> emb, emb |-> emb, context |-> context,
     is_video |-> FALSE, num_frames |-> 0, context_vid |-> None, trace |-> <<>>]

\* TESEnter that repeats the embedding and the context batch after batch
TESEnterTiled(s) ==
    LET is_video == s.x.ndim = 5
        num_frames == s.x.T
    IN [s EXCEPT !.is_video = is_video,
                 !.num_frames = IF is_video THEN num_frames ELSE 0,
                 !.emb = IF is_video /\ s.emb # None
                         THEN Some(TileRows(s.emb[1], num_frames)) ELSE @,
                 !.context_vid = IF is_video /\ s.context # None
                                 THEN Some(TileRows(s.context[1], num_frames)) ELSE None,
                 !.k = 1,
                 !.pc = IF s.layers = <<>> THEN "returned" ELSE "layers"]

\* is_video, num_frames and the embedding and context of every frame;
\* context_vid stays unbound (None) when there is no context
TESEnter(s) ==
    LET is_video == s.x.ndim = 5
        num_frames == s.x.T
    IN [s EXCEPT !.is_video = is_video,
                 !.num_frames = IF is_video THEN num_frames ELSE 0,
                 !.emb = IF is_video /\ s.emb # None
                         THEN Some(RepeatRows(s.emb[1], num_frames)) ELSE @,
                 !.context_vid = IF is_video /\ s.context # None
                                 THEN Some(RepeatRows(s.context[1], num_frames)) ELSE None,
                 !.k = 1,
                 !.pc = IF s.layers = <<>> THEN "returned" ELSE "layers"]

\* the branch taken for a layer, the tensor it leaves and the calls it made
Branch(branch, classes, r) == [branch |-> branch, classes |-> classes, r |-> r]

\* the body of the loop over the layers for layer k
TESBranch(s) ==
    LET layer == s.layers[s.k]
    IN IF layer \in TimestepBlocks
       THEN Branch("emb", <<layer>>, ResBlockCall(s.x, s.emb))
       ELSE IF layer = "SpatialTransformer"
       THEN IF s.is_video
            THEN IF s.context_vid = None
                 THEN Branch("context", <<>>, Failed("UnboundLocalError"))
                 ELSE Branch("context", <<layer>>,
                             Result(RowsToFrames(ApplyRows(FramesToRows(s.x), layer, <<>>,
                                                           s.context_vid[1]),
                                                 s.num_frames)))
            ELSE Branch("context", <<layer>>,
                        Result(ApplyRows(s.x, layer, <<>>,
                                         IF s.context = None THEN <<>> ELSE s.context[1])))
       ELSE IF layer = "SpatioTemporalAttention"
       THEN Branch("temporal", <<layer>>, Result(TemporalCall(s.x)))
       ELSE IF layer \in PairedUnits
       THEN LET first == ResBlockCall(s.x, s.emb)
            IN IF first.err # ""
               THEN Branch("paired", <<>>, first)
               ELSE Branch("paired", PairedMembers, Result(TemporalCall(first.x)))
       ELSE Branch("plain", <<layer>>,
                   Result(IF s.is_video
                          THEN RowsToFrames(ApplyRows(FramesToRows(s.x), layer, <<>>, <<>>),
                                            s.num_frames)
                          ELSE ApplyRows(s.x, layer, <<>>, <<>>)))

\* one iteration of the loop over the layers, and the return after the last
TESLayer(s) ==
    LET b == TESBranch(s)
        last == s.k = Len(s.layers)
    IN IF b.r.err # ""
       THEN Raise(s, b.r.err)
       ELSE [s EXCEPT !.x = b.r.x,
                      !.trace = @ \o [n \in 1..Len(b.classes) |->
                                         [k |-> s.k, layer |-> s.layers[s.k],
                                          branch |-> b.branch, class |-> b.classes[n]]],
                      !.k = IF last THEN @ ELSE @ + 1,
                      !.pc = IF last THEN "returned" ELSE @]

\* forward run to its end
RECURSIVE RunTES(_)
RunTES(s) ==
    IF s.pc \in {"returned", "error"}
    THEN s
    ELSE RunTES(IF s.pc = "enter" THEN TESEnter(s) ELSE TESLayer(s))

\* one row of embedding and of context per sample
RowsOf(B) == [b \in 1..B |-> b]

TESForwardEnter ==
    /\ tes.pc = "enter"
    /\ tes' = TESEnter(tes)
    /\ UNCHANGED <<unet, vd, pair, res, norm>>

TESForwardLayer ==
    /\ tes.pc = "layers"
    /\ tes' = TESLayer(tes)
    /\ UNCHANGED <<unet, vd, pair, res, norm>>

\* a call on an image or video batch, with or without embedding and context
InitTES ==
    /\ unet = NoUNet
    /\ vd = NoVD
    /\ pair = NoPair
    /\ res = NoCall
    /\ norm = NoCall
    /\ \E n \in 1..MaxLayers, B \in 1..MaxRows, T \in 0..MaxFrames :
          \E layers \in SeqsOfLen(LayerClasses, n),
             emb \in {None, Some(RowsOf(B))}, context \in {None, Some(RowsOf(B))} :
              tes = NewTES(layers, IF T = 0 THEN Image(B) ELSE Video(B, T), emb, context)

NextTES ==
    \/ TESForwardEnter
    \/ TESForwardLayer

\* one call of TimestepEmbedSequential.forward
SpecTES == InitTES /\ [][NextTES]_vars

----------------------------------------------------------------------------
(* ResBlock._forward on numbers.  A tensor holds, for every batch index    *)
(* (and frame), the integer entries of one channel along one spatial axis. *)

\* the entries of slice (b, t) of an input: distinct multiples of `scale`
NumSlice(b, t, scale) == [i \in 1..2 |-> scale * (4 * b + 2 * t + i)]

NumVideo(B, T, scale) ==
    [ndim |-> 5, B |-> B, T |-> T,
     data |-> [p \in (1..B) \X (1..T) |-> NumSlice(p[1], p[2], scale)]]

NumImage(B, scale) ==
    [ndim |-> 4, B |-> B, T |-> 0, data |-> [r \in 1..B |-> NumSlice(r, 0, scale)]]

\* entry i of v, 0 in the padding
Padded(v, i) == IF i \in 1..Len(v) THEN v[i] ELSE 0

\* conv_nd(dims, ..., 3, padding=1) with every kernel weight w and bias b
Conv3(v, w, b) ==
    [i \in 1..Len(v) |-> w * (Padded(v, i - 1) + v[i] + Padded(v, i + 1)) + b]

\* conv_nd(dims, ..., 1) with weight w and bias b
Conv1(v, w, b) == [i \in 1..Len(v) |-> w * v[i] + b]

\* normalization(channels): the entries centred on their mean (times the
\* number of entries, and before the division by the deviation)
Normalize1d(v) == [i \in 1..Len(v) |-> Len(v) * v[i] - SumSeq(v)]

\* nn.SiLU(), which keeps 0 and the sign of positive entries, on integers
SiLU(v) == [i \in 1..Len(v) |-> IF v[i] > 0 THEN v[i] ELSE 0]

\* nn.Dropout(p) in evaluation mode
Dropout(v) == v

\* Upsample(channels, False, dims): nearest-neighbour interpolation by 2
Interpolate(v) == [i \in 1..(2 * Len(v)) |-> v[(i + 1) \div 2]]

\* Downsample(channels, False, dims): avg_pool of size and stride 2
AvgPool(v) == [i \in 1..(Len(v) \div 2) |-> (v[2 * i - 1] + v[2 * i]) \div 2]

\* h_upd and x_upd
Upd(p, v) ==
    CASE p.updown = "up" -> Interpolate(v)
      [] p.updown = "down" -> AvgPool(v)
      [] OTHER -> v

\* skip_connection: nn.Identity(), a 3x3 convolution or a 1x1 convolution
SkipConnection(p, v) ==
    CASE p.skip = "Identity" -> v
      [] p.skip = "conv3" -> Conv3(v, 2, 1)
      [] OTHER -> Conv1(v, 2, 1)

\* the last layer of out_layers: zero_module(conv_nd(...)) has w_out = 0 and
\* b_out = 0 until it is trained
OutConv(p, v) == Conv3(v, p.w_out, p.b_out)

\* the block: injection mode, resizing, skip path, final convolution
ResParams(use_scale_shift_norm, updown, skip, w_out, b_out) ==
    [use_scale_shift_norm |-> use_scale_shift_norm, updown |-> updown, skip |-> skip,
     w_out |-> w_out, b_out |-> b_out]

\* a call _forward(x, emb) about to start; emb has one row per row of the
\* flattened x, as TimestepEmbedSequential passes it
NewRes(p, x, emb) ==
    [pc |-> "enter", p |-> p, input |-> x, x |-> x, emb |-> emb,
     is_video |-> FALSE, num_frames |-> 0, h |-> x, emb_out |-> <<>>, out |-> x]

\* is_video, num_frames, the flattening of a video
ResEnter(s) ==
    LET is_video == s.x.ndim = 5
    IN [s EXCEPT !.is_video = is_video,
                 !.num_frames = IF is_video THEN s.x.T ELSE 0,
                 !.x = IF is_video THEN FramesToRows(s.x) ELSE @,
                 !.pc = "in_layers"]

\* in_layers, with h_upd and x_upd before the convolution when the block
\* resizes
ResInLayers(s) ==
    LET rows == 1..s.x.B
    IN IF s.p.updown # "none"
       THEN [s EXCEPT !.h = [s.x EXCEPT !.data = [r \in rows |->
                                Conv3(Upd(s.p, SiLU(Normalize1d(s.x.data[r]))), 1, 1)]],
                      !.x = [s.x EXCEPT !.data = [r \in rows |-> Upd(s.p, s.x.data[r])]],
                      !.pc = "emb_layers"]
       ELSE [s EXCEPT !.h = [s.x EXCEPT !.data = [r \in rows |->
                                Conv3(SiLU(Normalize1d(s.x.data[r])), 1, 1)]],
                      !.pc = "emb_layers"]

\* emb_layers: SiLU and a linear layer to out_channels entries, or to twice
\* as many (scale and shift) with use_scale_shift_norm
ResEmbLayers(s) ==
    [s EXCEPT !.emb_out = [r \in 1..Len(s.emb) |->
                              LET e == SiLU(<<s.emb[r]>>)[1]
                              IN IF s.p.use_scale_shift_norm
                                 THEN <<e + 1, 2 * e - 1>>
                                 ELSE <<2 * e - 1>>],
              !.pc = "out_layers"]

\* ResOutLayers that scales and shifts after the rest of out_layers
ResOutLayersModulateLast(s) ==
    LET rows == 1..s.h.B
        Centered(r) == Normalize1d(s.h.data[r])
    IN [s EXCEPT !.h.data =
            IF s.p.use_scale_shift_norm
            THEN [r \in rows |->
                     LET rest == OutConv(s.p, Dropout(SiLU(Centered(r))))
                     IN [i \in 1..Len(rest) |->
                            rest[i] * (1 + s.emb_out[r][1]) + s.emb_out[r][2]]]
            ELSE [r \in rows |->
                     OutConv(s.p, Dropout(SiLU(Normalize1d(
                         [i \in 1..Len(s.h.data[r]) |-> s.h.data[r][i] + s.emb_out[r][1]]))))],
                 !.pc = "skip"]

\* the injection of the embedding and out_layers
ResOutLayers(s) ==
    LET rows == 1..s.h.B
        Centered(r) == Normalize1d(s.h.data[r])
    IN [s EXCEPT !.h.data =
            IF s.p.use_scale_shift_norm
            THEN [r \in rows |->
                     OutConv(s.p, Dropout(SiLU(
                         [i \in 1..Len(Centered(r)) |->
                             Centered(r)[i] * (1 + s.emb_out[r][1]) + s.emb_out[r][2]])))]
            ELSE [r \in rows |->
                     OutConv(s.p, Dropout(SiLU(Normalize1d(
                         [i \in 1..Len(s.h.data[r]) |-> s.h.data[r][i] + s.emb_out[r][1]]))))],
                 !.pc = "skip"]

\* skip_connection(x) + h, and the restoring of a video
ResSkip(s) ==
    LET sum == [s.h EXCEPT !.data = [r \in 1..s.h.B |->
                   LET skip == SkipConnection(s.p, s.x.data[r])
                   IN [i \in 1..Len(skip) |-> skip[i] + s.h.data[r][i]]]]
    IN [s EXCEPT !.out = IF s.is_video THEN RowsToFrames(sum, s.num_frames) ELSE sum,
                 !.pc = "returned"]

ResForwardEnter ==
    /\ res.pc = "enter"
    /\ res' = ResEnter(res)
    /\ UNCHANGED <<unet, vd, pair, tes, norm>>

ResForwardInLayers ==
    /\ res.pc = "in_layers"
    /\ res' = ResInLayers(res)
    /\ UNCHANGED <<unet, vd, pair, tes, norm>>

ResForwardEmbLayers ==
    /\ res.pc = "emb_layers"
    /\ res' = ResEmbLayers(res)
    /\ UNCHANGED <<unet, vd, pair, tes, norm>>

ResForwardOutLayers ==
    /\ res.pc = "out_layers"
    /\ res' = ResOutLayers(res)
    /\ UNCHANGED <<unet, vd, pair, tes, norm>>

ResForwardSkip ==
    /\ res.pc = "skip"
    /\ res' = ResSkip(res)
    /\ UNCHANGED <<unet, vd, pair, tes, norm>>

\* a block of any configuration, its final convolution zero or not, called
\* on an image or video batch with an embedding
InitRes ==
    /\ unet = NoUNet
    /\ vd = NoVD
    /\ pair = NoPair
    /\ tes = NoCall
    /\ norm = NoCall
    /\ \E B \in 1..MaxRows, T \in 0..MaxFrames,
          scale \in -MaxFeature..MaxFeature, e \in -MaxFeature..MaxFeature :
          \E use_scale_shift_norm \in BOOLEAN, updown \in {"none", "up", "down"},
             skip \in {"Identity", "conv3", "conv1"}, w_out \in 0..1, b_out \in 0..1 :
              res = NewRes(ResParams(use_scale_shift_norm, updown, skip, w_out, b_out),
                           IF T = 0 THEN NumImage(B, scale) ELSE NumVideo(B, T, scale),
                           [r \in 1..(IF T = 0 THEN B ELSE B * T) |-> e * r])

NextRes ==
    \/ ResForwardEnter
    \/ ResForwardInLayers
    \/ ResForwardEmbLayers
    \/ ResForwardOutLayers
    \/ ResForwardSkip

\* one call of ResBlock._forward
SpecRes == InitRes /\ [][NextRes]_vars

----------------------------------------------------------------------------
(* Properties of UNetModel2D.                                              *)

\* positions of a tower whose decoder has been built completely
DecoderBuilt ==
    unet.pc \in {"out", "built", "fwd_input_blocks", "fwd_middle_block",
                 "fwd_output_blocks", "fwd_out", "returned"}

Levels == Len(unet.cfg.channel_mult)

\* C1: the channel counts appended to input_block_channels while the encoder
\* is built, read in reverse, are the channel counts the decoder pops: the
\* decoder never pops an empty stack, what it has popped so far is the
\* reversed tail of what was pushed, and once the last decoder block is built
\* the stack is empty after 1 + sum(num_noattn_blocks) + (levels - 1) pushes
\* and as many pops.
C1_SkipChannelLIFO ==
    /\ unet.err # "IndexError: pop from empty list"
    /\ unet.pc = "output_blocks" =>
          /\ Len(unet.popped) <= Len(unet.pushed)
          /\ unet.popped = SubSeq(Reverse(unet.pushed), 1, Len(unet.popped))
          /\ unet.input_block_channels =
                 SubSeq(unet.pushed, 1, Len(unet.pushed) - Len(unet.popped))
    /\ DecoderBuilt =>
          /\ unet.input_block_channels = <<>>
          /\ unet.popped = Reverse(unet.pushed)
          /\ Len(unet.pushed) = 1 + SumSeq(unet.cfg.num_noattn_blocks) + (Levels - 1)
          /\ Len(unet.output_blocks) = Len(unet.pushed)

\* a two-level tower whose levels differ in width is built
C1_Witness ==
    /\ unet.pc = "built"
    /\ Levels = 2
    /\ unet.cfg.channel_mult[1] # unet.cfg.channel_mult[2]
    /\ Len(unet.popped) >= 3
    /\ unet.popped[1] # Last(unet.popped)

\* C2: at every decoder step of forward the channel count of the running
\* features plus the channel count of the tensor popped from hs is the input
\* channel count the step's Stage Block declares.
C2_ConcatChannelsMatch ==
    unet.pc = "fwd_output_blocks" =>
        /\ unet.hs # <<>>
        /\ unet.h.C + Last(unet.hs).C = unet.output_blocks[unet.step].layers[1].channels

\* a decoder step past the first Upsample of a tower whose widths differ
C2_Witness ==
    /\ unet.pc = "fwd_output_blocks"
    /\ Levels = 2
    /\ unet.cfg.channel_mult[1] # unet.cfg.channel_mult[2]
    /\ unet.step > unet.cfg.num_noattn_blocks[2] + 1
    /\ unet.h.C # Last(unet.hs).C

\* C7: the channel count leaving the last decoder block is the input channel
\* count every layer of the final projection self.out declares, and forward
\* returns a tensor of output_channels channels.
C7_OutChannels ==
    /\ unet.pc = "fwd_out" =>
          /\ unet.h.C = unet.cfg.model_channels * unet.cfg.channel_mult[1]
          /\ \A i \in 1..Len(unet.out.layers) : unet.out.layers[i].channels = unet.h.C
    /\ unet.pc = "returned" => unet.h.C = unet.cfg.output_channels
    /\ unet.err # "RuntimeError"

\* the input's height and width are multiples of 2^(levels - 1)
SizesDivisible ==
    /\ unet.x.H % Pow2(Levels - 1) = 0
    /\ unet.x.W % Pow2(Levels - 1) = 0

\* the spatial shapes agree at every concatenation and at the end
SpatialRoundTrip ==
    /\ unet.err # "RuntimeError: cat"
    /\ unet.pc = "fwd_output_blocks" =>
          /\ unet.hs # <<>>
          /\ unet.h.H = Last(unet.hs).H
          /\ unet.h.W = Last(unet.hs).W
    /\ unet.pc \in {"fwd_out", "returned"} =>
          /\ unet.h.H = unet.x.H
          /\ unet.h.W = unet.x.W

\* C8 as stated: for every input height and width and every number of
\* levels, the running features and the popped skip tensor have the same
\* spatial size at every decoder step and forward returns the input's
\* spatial shape.
C8_SpatialAnySize == SpatialRoundTrip

\* C8 amended: the same for every input whose height and width are multiples
\* of 2^(levels - 1).
C8_SpatialDivisible == SizesDivisible => SpatialRoundTrip

\* forward returns on a two-level tower and an input of even height and width
C8_Witness ==
    /\ unet.pc = "returned"
    /\ Levels = 2
    /\ unet.x.H = 4
    /\ unet.x.W = 2
    /\ unet.h.H = 4
    /\ unet.h.W = 2

\* C5: a tower is constructed only when with_attn, with_connector and
\* channel_mult have the same length; a flag sequence that is shorter or
\* longer than the channel schedule makes the constructor fail.
C5_FlagLengthsChecked ==
    unet.pc = "built" =>
        /\ Len(unet.cfg.with_attn) = Len(unet.cfg.channel_mult)
        /\ Len(unet.cfg.with_connector) = Len(unet.cfg.channel_mult)

----------------------------------------------------------------------------
(* Properties of UNetModelVD.forward.                                      *)

\* the call has computed its context
ContextComputed == vd.pc \notin {"none", "conditioning", "error"}

\* C9: the combined context is c0 when c0 is the only source, whatever the
\* weights are (they are not read, so an absent weight raises nothing);
\* c0*w + c1*(1-w) with w = mixed_ratio when exactly c0 and c1 are given;
\* and c0*k0 + c1*k1 + c2*k2 with k1 = mixed_ratio, k2 = mixed_ratio_c2,
\* k0 = 1 - k1 - k2 (coefficients summing to 1) when all three are given.
\* The weights are used as supplied.  Values are in units of 1/WeightDen.
C9_ContextCombination ==
    vd.pc # "none" =>
        /\ (vd.c1 = None /\ vd.c2 = None) =>
              /\ vd.err # "TypeError"
              /\ ContextComputed => vd.context = vd.c0[1] * WeightDen
        /\ (vd.c1 # None /\ vd.c2 = None /\ ContextComputed) =>
              LET w == vd.mixed_ratio[1]
              IN vd.context = vd.c0[1] * w + vd.c1[1] * (WeightDen - w)
        /\ (vd.c1 # None /\ vd.c2 # None /\ ContextComputed) =>
              LET k1 == vd.mixed_ratio[1]
                  k2 == vd.mixed_ratio_c2[1]
                  k0 == WeightDen - k1 - k2
              IN /\ k0 + k1 + k2 = WeightDen
                 /\ vd.context = vd.c0[1] * k0 + vd.c1[1] * k1 + vd.c2[1] * k2

\* a call with two sources and an uneven weight has returned
C9_Witness ==
    /\ vd.pc = "done"
    /\ vd.c1 = Some(5)
    /\ vd.c2 = None
    /\ vd.mixed_ratio = Some(2)
    /\ vd.context = 3 * 2 + 5 * 0

HasUnknownTag(s) == \E i \in 1..Len(s.xtype) : s.xtype[i] \notin Tags

\* C6: a call whose xtype holds a tag outside {image, video, text, audio}
\* at any position never gets past the connector loop, returns no output
\* list, and the step at the connector loop raises: no dispatch point
\* processes the batch further.
C6_UnknownTagRaises ==
    /\ [](vd.pc # "none" /\ HasUnknownTag(vd) =>
            /\ vd.pc \in {"conditioning", "prepare", "connecters_out", "error"}
            /\ vd.out_all = <<>>
            /\ vd.pc = "error" => vd.err = "RuntimeError: No active exception to reraise")
    /\ [][(vd.pc = "connecters_out" /\ HasUnknownTag(vd)) => vd'.pc = "error"]_vars

\* a call whose last of three tags is unknown has raised
C6_Witness ==
    /\ vd.pc = "error"
    /\ vd.xtype = <<"image", "text", OtherTag>>
    /\ vd.err = "RuntimeError: No active exception to reraise"
    /\ vd.out_all = <<>>

\* C3: every snapshot list still stored in hs has the value it had when it
\* was recorded, and the tensors concatenated at decoder step j (1-based)
\* are the snapshots recorded at encoder step n + 1 - j.
C3_SnapshotsIntact ==
    vd.pc \notin {"none", "error"} =>
        /\ Len(vd.hs) <= Len(vd.snapshots)
        /\ \A k \in 1..Len(vd.hs) : vd.heap[vd.hs[k]] = vd.snapshots[k]
        /\ \A j \in 1..Len(vd.concatenated) :
              vd.concatenated[j] = vd.snapshots[Len(vd.snapshots) + 1 - j]

IsOneOfEach(xtype) ==
    /\ Len(xtype) = Cardinality(Tags)
    /\ {xtype[i] : i \in 1..Len(xtype)} = Tags

\* C4: a call on a batch with one sample of each of the four tags does not
\* raise, and when it has returned there is one output per sample, in input
\* order, the text output has the rank of the text input and the video
\* output has the shape of the video input (time axis included).
C4_OneOfEachCompletes ==
    (vd.pc # "none" /\ IsOneOfEach(vd.xtype)) =>
        /\ vd.pc # "error"
        /\ vd.pc = "done" =>
              /\ Len(vd.out_all) = Len(vd.xtype)
              /\ \A i \in 1..Len(vd.xtype) :
                    /\ vd.out_all[i].val[1] = Token("x", vd.xtype[i], i, "", 0)
                    /\ vd.xtype[i] = "text" => vd.out_all[i].shape = TextShape
                    /\ vd.xtype[i] = "video" => vd.out_all[i].shape = VideoShape

\* C10: when two calls with the same timesteps and context sources have both
\* returned, the outputs at every position where the two batches hold the
\* same sample with the same tag are equal, whatever the other samples (their
\* contents, tags or number) are.
C10_SampleIndependence ==
    (pair[1].pc = "done" /\ pair[2].pc = "done") =>
        \A i \in 1..MaxPairBatch :
            AgreeAt(pair[1], pair[2], i) => pair[1].out_all[i] = pair[2].out_all[i]

\* two calls that share their second sample and differ in the tag and the
\* content of the first have both returned
C10_Witness ==
    /\ pair[1].pc = "done"
    /\ pair[2].pc = "done"
    /\ pair[1].xtype = <<"video", "text">>
    /\ pair[2].xtype = <<"audio", "text">>
    /\ pair[1].ids = <<1, 2>>
    /\ pair[2].ids = <<2, 2>>
    /\ pair[1].out_all[2] = pair[2].out_all[2]

----------------------------------------------------------------------------
(* Properties of the decoder UNetModel2D.__init__ builds.                  *)

\* number of decoder pipelines built for the levels from `level` up to the
\* last (the decoder builds the last level first); levels count from 1
RECURSIVE DecoderEnd(_, _)
DecoderEnd(num_noattn_blocks, level) ==
    IF level > Len(num_noattn_blocks)
    THEN 0
    ELSE num_noattn_blocks[level] + 1 + DecoderEnd(num_noattn_blocks, level + 1)

\* number of layers of a class in a list of pipelines
RECURSIVE CountLayers(_, _)
CountLayers(blocks, type) ==
    IF blocks = <<>>
    THEN 0
    ELSE Cardinality({i \in 1..Len(blocks[1].layers) : blocks[1].layers[i].type = type})
         + CountLayers(Tail(blocks), type)

\* C19: in a built decoder every level contributes num_noattn_blocks[level]+1
\* pipelines; a pipeline holds an Upsample, once and as its last layer,
\* exactly when it is the last pipeline of a level other than level index 0;
\* so the decoder has as many Upsample stages as the encoder has Downsample
\* stages, the number of levels minus 1.
C19_UpsamplePerLevel ==
    DecoderBuilt =>
        LET nb == unet.cfg.num_noattn_blocks
            blocks == unet.output_blocks
            HasUpsample(k) == \E i \in 1..Len(blocks[k].layers) :
                                  blocks[k].layers[i].type = "Upsample"
        IN /\ Len(blocks) = DecoderEnd(nb, 1)
           /\ \A k \in 1..Len(blocks) :
                 /\ HasUpsample(k) <=> \E level \in 2..Levels : k = DecoderEnd(nb, level)
                 /\ HasUpsample(k) =>
                       /\ Last(blocks[k].layers).type = "Upsample"
                       /\ CountLayers(<<blocks[k]>>, "Upsample") = 1
           /\ CountLayers(blocks, "Upsample") = Levels - 1
           /\ CountLayers(unet.input_blocks, "Downsample") = Levels - 1

\* a two-level decoder with two pipelines on its last level is built: the
\* second pipeline ends in the only Upsample
C19_Witness ==
    /\ unet.pc = "built"
    /\ unet.cfg.num_noattn_blocks = <<0, 1>>
    /\ Len(unet.output_blocks) = 3
    /\ Last(unet.output_blocks[2].layers).type = "Upsample"
    /\ CountLayers(unet.output_blocks, "Upsample") = 1

----------------------------------------------------------------------------
(* Properties of the routing in UNetModelVD.forward.                       *)

\* the tower of a modality
TowerFor(tag) ==
    CASE tag \in {"image", "video"} -> "image"
      [] tag = "text" -> "text"
      [] tag = "audio" -> "audio"

\* tensor t of sample i has, as its last stage, the connector-attention
\* stage `name`[k] of the sample's tower with h_con[i] as context when the
\* tower has such a stage, and no connector-attention stage when it has none
ConnectorAttentionAsOwned(t, i, name, k) ==
    LET tower == TowerFor(vd.xtype[i])
        stage == vd.towers[tower][name][k]
        hc == vd.heap[vd.h_con][i].val
        n == Len(t.val)
    IN IF stage.none
       THEN Last(t.val)[1] # name
       ELSE /\ n > Len(hc)
            /\ SubSeq(t.val, n - Len(hc), n) = hc \o <<Token(name, tower, k, "", 0)>>

\* C15: after every encoder level and every decoder level the
\* connector-attention stage of that level is applied to sample i exactly
\* when the tower of sample i's modality has one at that index, it is that
\* tower's stage, and its context is h_con[i]; a missing stage is never
\* called.  This holds for towers with different with_connector flags too.
C15_ConnectorAttentionPerTower ==
    vd.pc # "none" =>
        /\ vd.err # "TypeError: 'NoneType' object is not callable"
        /\ (vd.pc \in {"input_blocks", "middle_block"} /\ vd.snapshots # <<>>) =>
              \A i \in 1..Len(vd.xtype) :
                  ConnectorAttentionAsOwned(Last(vd.snapshots)[i], i,
                                            "input_block_connecters_in", Len(vd.snapshots))
        /\ (vd.pc \in {"output_blocks", "out"} /\ vd.concatenated # <<>>) =>
              \A i \in 1..Len(vd.xtype) :
                  ConnectorAttentionAsOwned(vd.heap[vd.h][i], i,
                                            "output_block_connecters_in", Len(vd.concatenated))

\* the indices of the main stages `name` in the order they were applied to a
\* tensor, read off the tensor's stage sequence
RECURSIVE StageIndices(_, _)
StageIndices(val, name) ==
    IF val = <<>>
    THEN <<>>
    ELSE IF val[1][1] = name
         THEN <<val[1][3]>> \o StageIndices(Tail(val), name)
         ELSE StageIndices(Tail(val), name)

\* C16: once the encoder loop has ended, every encoder pipeline of the tower
\* of sample i has been applied to it exactly once and in index order (the
\* k-th snapshot went through pipelines 1..k, and there are as many
\* snapshots as the tower has encoder pipelines); once the decoder loop has
\* ended there were as many decoder steps as snapshots and as the tower has
\* decoder pipelines.  This holds for towers with different numbers of
\* pipelines too.
C16_EveryPipelineOnce ==
    vd.pc \in {"middle_block", "output_blocks", "out", "done"} =>
        \A i \in 1..Len(vd.xtype) :
            LET tower == vd.towers[TowerFor(vd.xtype[i])]
            IN /\ Len(vd.snapshots) = Len(tower.input_blocks)
               /\ \A k \in 1..Len(vd.snapshots) :
                     StageIndices(vd.snapshots[k][i].val, "input_blocks") = [j \in 1..k |-> j]
               /\ vd.pc \in {"out", "done"} =>
                     /\ Len(vd.concatenated) = Len(vd.snapshots)
                     /\ Len(vd.concatenated) = Len(tower.output_blocks)

\* the stages of a tower: name, and whether the stage takes an embedding
TowerStages ==
    {"connecters_out", "input_blocks", "input_block_connecters_in", "middle_block",
     "output_blocks", "output_block_connecters_in", "out"}

EmbeddedStages == {"connecters_out", "input_blocks", "middle_block", "output_blocks"}

\* every tower stage in the history of a tensor is a stage of `tower`, given
\* that tower's embedding if it takes one
StagesOfTower(val, tower) ==
    \A n \in 1..Len(val) :
        val[n][1] \in TowerStages =>
            /\ val[n][2] = tower
            /\ val[n][4] = (IF val[n][1] \in EmbeddedStages THEN tower ELSE "")

\* every tensor of every list the call holds
Lists(s) == {s.heap[r] : r \in 1..Len(s.heap)} \cup (IF s.pc = "done" THEN {s.out_all} ELSE {})

\* C17: within one call every stage that has been applied to sample i
\* (connector stages, encoder pipelines, connector-attention stages,
\* bottleneck, decoder pipelines, final projection) is a stage of the tower
\* of sample i's tag (image, video -> image; text -> text; audio -> audio),
\* and every stage that takes a timestep embedding was given that tower's.
C17_OneTowerPerSample ==
    (vd.pc \notin {"none", "error"} /\ ~HasUnknownTag(vd)) =>
        \A list \in Lists(vd) :
            \A i \in 1..Len(list) : StagesOfTower(list[i].val, TowerFor(vd.xtype[i]))

\* a call on a video and a text sample has returned: both went through all
\* kinds of stages of their towers
C17_Witness ==
    /\ vd.pc = "done"
    /\ vd.xtype = <<"video", "text">>
    /\ \A i \in 1..2 :
          {vd.out_all[i].val[n][1] : n \in 1..Len(vd.out_all[i].val)} \cap TowerStages
              = TowerStages
    /\ Last(vd.out_all[1].val)[1] = "restore"
    /\ vd.out_all[1].val[Len(vd.out_all[1].val) - 1] = Token("out", "image", 0, "", 0)
    /\ Last(vd.out_all[2].val) = Token("out", "text", 0, "", 0)

\* the positions of a call before and in the main tower
BeforeMainTower == {"conditioning", "prepare", "connecters_out", "pool"}

InMainTower == {"input_blocks", "middle_block", "output_blocks", "out", "done"}

\* C18: the connector pathway is evaluated once and before the main tower:
\* no encoder pipeline has been applied while h_con is being computed; from
\* the first encoder pipeline on, every h_con[i] is sample i's input passed
\* once through each connector pipeline in order, then pooled once, then
\* normalized once; and no later step of the call changes h_con.
C18_ConnectorOnceBeforeMain ==
    /\ [](vd.pc \in BeforeMainTower => (vd.snapshots = <<>> /\ vd.h = 0))
    /\ [](vd.pc \in InMainTower =>
            \A i \in 1..Len(vd.xtype) :
                LET val == vd.heap[vd.h_con][i].val
                    n == ZipLen(vd, "connecters_out")
                IN /\ Len(val) = n + 3
                   /\ val[1] = Token("x", vd.xtype[i], vd.ids[i], "", 0)
                   /\ StageIndices(val, "connecters_out") = [k \in 1..n |-> k]
                   /\ val[n + 2][1] \in {"mean2", "mean3"}
                   /\ val[n + 3][1] = "normalize")
    /\ [][vd.pc \in InMainTower =>
            (vd'.h_con = vd.h_con /\ vd'.heap[vd.h_con] = vd.heap[vd.h_con])]_vars

\* a call on two samples is at the bottleneck with both connector embeddings
\* normalized
C18_Witness ==
    /\ vd.pc = "middle_block"
    /\ vd.xtype = <<"audio", "video">>
    /\ \A i \in 1..2 : Last(vd.heap[vd.h_con][i].val)[1] = "normalize"
    /\ vd.heap[vd.h_con][2].val[Len(vd.heap[vd.h_con][2].val) - 1][1] = "mean3"

----------------------------------------------------------------------------
(* Properties of layer-level calls.                                        *)

\* C13: for any connector output, the zero one included, the pooled and
\* normalized connector vector is a vector of numbers whose squared L2 norm
\* along the feature axis, sum(num[c]^2) / sq, is 1.
C13_UnitNorm ==
    norm.pc = "done" =>
        /\ ~norm.out.nan
        /\ norm.out.sq > 0
        /\ SumSq(norm.out.num) = norm.out.sq

PlainClasses == {"Conv2d"}

\* the pipeline holds only plain transforms and exactly one SpatialTransformer
PlainWithOneCrossAttention(layers) ==
    /\ \A n \in 1..Len(layers) : layers[n] \in PlainClasses \cup {"SpatialTransformer"}
    /\ Cardinality({n \in 1..Len(layers) : layers[n] = "SpatialTransformer"}) = 1

C14_TemporalFirst ==
    (tes.pc \in {"layers", "returned"} /\ tes.trace # <<>> /\ Last(tes.trace).branch = "paired") =>
        LET n == Len(tes.trace)
        IN /\ tes.trace[n - 1].class = "SpatioTemporalAttention"
           /\ tes.trace[n].class = "ResBlock"
           /\ \A p \in DOMAIN tes.x.data :
                 LET v == tes.x.data[p]
                 IN /\ v[Len(v) - 1].stage = "SpatioTemporalAttention"
                    /\ v[Len(v)].stage = "ResBlock"

\* the branch that handles a stage of each kind
BranchOfKind ==
    [ResBlock |-> "emb", SpatialTransformer |-> "context",
     SpatioTemporalAttention |-> "temporal", ModuleList |-> "paired",
     VideoSequential |-> "paired", Conv2d |-> "plain"]

\* C20: every stage forward has handled is of one of the five kinds and was
\* handled by the branch of its kind, and forward does not get past (and
\* does not return from a pipeline with) a stage of no kind: such a stage
\* ends the call with an error.
C20_DispatchTotal ==
    tes.pc \in {"layers", "returned"} =>
        /\ \A n \in 1..Len(tes.trace) :
              /\ tes.trace[n].layer \in DOMAIN BranchOfKind
              /\ tes.trace[n].branch = BranchOfKind[tes.trace[n].layer]
        /\ \A j \in 1..(IF tes.pc = "returned" THEN Len(tes.layers) ELSE tes.k - 1) :
              tes.layers[j] \in DOMAIN BranchOfKind

\* C11: a ResBlock whose final convolution has zero weights and zero bias
\* returns, for every input, every embedding and both injection modes, the
\* skip-path projection of the input: slice by slice, skip_connection
\* applied to the input slice (after x_upd when the block resizes); a
\* 5-dimensional input comes back 5-dimensional with every frame at its own
\* batch and time index.
C11_ZeroConvIsSkipPath ==
    (res.pc = "returned" /\ res.p.w_out = 0 /\ res.p.b_out = 0) =>
        /\ res.out.ndim = res.input.ndim
        /\ res.out.B = res.input.B
        /\ res.out.T = res.input.T
        /\ DOMAIN res.out.data = DOMAIN res.input.data
        /\ \A p \in DOMAIN res.input.data :
              res.out.data[p] = SkipConnection(res.p, Upd(res.p, res.input.data[p]))

\* a downsampling scale-shift block with a zeroed final convolution and a
\* convolution on its skip path has returned from a two-sample, two-frame
\* video with a nonzero embedding
C11_Witness ==
    /\ res.pc = "returned"
    /\ res.p = ResParams(TRUE, "down", "conv3", 0, 0)
    /\ res.input = NumVideo(2, 2, 1)
    /\ res.emb = <<1, 2, 3, 4>>
    /\ res.out.data[<<2, 1>>] # res.out.data[<<1, 2>>]

----------------------------------------------------------------------------
(* Further properties of the conditioning of UNetModelVD.forward.          *)

\* C24: whenever c1 is None the combined context is c0 (in units of
\* 1/WeightDen), whatever c2, mixed_ratio and mixed_ratio_c2 are, absent
\* weights included: a c2 given without c1 contributes nothing and the
\* conditioning raises no error.
C24_ThirdSourceNeedsSecond ==
    (vd.pc # "none" /\ vd.c1 = None) =>
        /\ vd.err # "TypeError"
        /\ vd.pc # "conditioning" => vd.context = vd.c0[1] * WeightDen

\* a call with c0 and c2 but no c1, and a weight for c2, has returned with
\* c0 as its context
C24_Witness ==
    /\ vd.pc = "done"
    /\ vd.c1 = None
    /\ vd.c2 = Some(11)
    /\ vd.mixed_ratio = None
    /\ vd.mixed_ratio_c2 = Some(1)
    /\ vd.context = 3 * WeightDen

----------------------------------------------------------------------------
(* Properties of either tower built and called on its own.                 *)

\* C21: in UNetModel0D_MultiDim, for every second_dim schedule, at every
\* decoder step of forward the running feature tensor and the skip tensor
\* popped from hs agree on every axis but the channel axis, and the input
\* shape the block declares, [current_channel[0] + extra_channel[0], second
\* dimension, 1], is the shape of their concatenation along the channel axis.
C21_DecoderShapesAgree ==
    (unet.cfg.kind = "0dmd" /\ unet.pc = "fwd_output_blocks") =>
        /\ unet.hs # <<>>
        /\ unet.h.H = Last(unet.hs).H
        /\ unet.h.W = Last(unet.hs).W
        /\ unet.output_blocks[unet.step].layers[1].channels =
               <<unet.h.C + Last(unet.hs).C, unet.h.H, unet.h.W>>

\* the constructor has run to its end
TowerBuilt == ~unet.out.none

\* a pipeline that starts with a Stage-Block
IsStageBlock(module) ==
    module.layers[1].type \in {"ResBlock", "ModuleList", "FCBlock_MultiDim"}

\* the channel count of a width of either tower
Width(channels) == IF unet.cfg.kind = "2d" THEN channels ELSE channels[1]

\* the level of every encoder pipeline after the initial projection, from
\* level l on: the Stage-Block pipelines of a level, then 0 for the
\* downsampling pipeline that follows every level but the last
RECURSIVE InputLevels(_, _)
InputLevels(cfg, l) ==
    IF l > Len(cfg.channel_mult)
    THEN <<>>
    ELSE [i \in 1..cfg.num_noattn_blocks[l] |-> l]
         \o (IF l < Len(cfg.channel_mult) THEN <<0>> ELSE <<>>)
         \o InputLevels(cfg, l + 1)

\* the level of every decoder pipeline, from level l down
RECURSIVE OutputLevels(_, _)
OutputLevels(cfg, l) ==
    IF l = 0
    THEN <<>>
    ELSE [i \in 1..(cfg.num_noattn_blocks[l] + 1) |-> l] \o OutputLevels(cfg, l - 1)

\* entry j of a connector list is the connector-attention stage of pipeline
\* j exactly when the pipeline is a Stage-Block pipeline of a level whose
\* with_connector flag is set, and None otherwise
ConnecterBeside(blocks, connecters, levels, j) ==
    LET stage == IsStageBlock(blocks[j])
    IN /\ stage <=> levels[j] # 0
       /\ ~connecters[j].none <=>
              (IF levels[j] = 0 THEN FALSE ELSE stage /\ unet.cfg.with_connector[levels[j]])
       /\ ~connecters[j].none =>
              connecters[j] =
                  Sequential(<<SpatialTransformer(
                                   Width(blocks[j].layers[1].out_channels),
                                   unet.connector_out_channels)>>)

\* C22: in both towers input_block_connecters_in is as long as input_blocks
\* and output_block_connecters_in as long as output_blocks; entry j holds a
\* connector-attention stage exactly when pipeline j is a Stage-Block
\* pipeline of a level whose with_connector flag is set, and None for the
\* initial projection, every downsampling pipeline and every level whose
\* flag is unset.
C22_ConnectorListsAligned ==
    TowerBuilt =>
        LET inLevels == <<0>> \o InputLevels(unet.cfg, 1)
            outLevels == OutputLevels(unet.cfg, Len(unet.cfg.channel_mult))
        IN /\ Len(unet.input_block_connecters_in) = Len(unet.input_blocks)
           /\ Len(unet.output_block_connecters_in) = Len(unet.output_blocks)
           /\ Len(inLevels) = Len(unet.input_blocks)
           /\ Len(outLevels) = Len(unet.output_blocks)
           /\ \A j \in 1..Len(unet.input_blocks) :
                 ConnecterBeside(unet.input_blocks,
                                 unet.input_block_connecters_in, inLevels, j)
           /\ \A j \in 1..Len(unet.output_blocks) :
                 ConnecterBeside(unet.output_blocks,
                                 unet.output_block_connecters_in, outLevels, j)

\* a multi-dimensional tower of two levels built with the connector flag of
\* the first level only: None beside the projection, a stage beside the
\* block of the first level, None beside the Linear_MultiDim and the block
\* of the second level
C22_Witness ==
    /\ unet.pc = "built"
    /\ unet.cfg.kind = "0dmd"
    /\ unet.cfg.num_noattn_blocks = <<1, 1>>
    /\ unet.cfg.with_connector = <<TRUE, FALSE>>
    /\ Len(unet.input_block_connecters_in) = 4
    /\ [j \in 1..4 |-> unet.input_block_connecters_in[j].none] =
           <<TRUE, FALSE, TRUE, TRUE>>
    /\ [j \in 1..4 |-> unet.output_block_connecters_in[j].none] =
           <<TRUE, TRUE, FALSE, FALSE>>

\* forward has been entered
Called == TowerBuilt /\ unet.pc # "built"

\* the modules a whole call evaluates, in order
PipelinesInOrder ==
    [i \in 1..Len(unet.input_blocks) |-> <<"input_blocks", i>>]
    \o <<<<"middle_block", 1>>>>
    \o [i \in 1..Len(unet.output_blocks) |-> <<"output_blocks", i>>]
    \o <<<<"out", 1>>>>

\* what forward does on input x for the tower built from the configuration
\* with other connector flags and another connector schedule
OtherConnector(with_connector, levels) ==
    LET cfg == [unet.cfg EXCEPT
                   !.with_connector = with_connector,
                   !.channel_mult_connector = ConnectorMult(levels),
                   !.num_noattn_blocks_connector = ConnectorBlocks(levels),
                   !.second_dim_connector =
                       IF unet.cfg.kind = "2d" THEN <<>> ELSE DefaultSecondDim(levels)]
    IN RunForward(ForwardEnter(Construct(cfg), unet.x.H, unet.x.W))

\* C23: forward of a single tower called on its own applies input_blocks,
\* middle_block, output_blocks and the final projection, in that order, and
\* nothing else: it evaluates no entry of connecters_out,
\* input_block_connecters_in or output_block_connecters_in, and what it
\* returns or raises is what the tower built with any other with_connector
\* flags and any other connector schedule returns or raises on that input.
C23_StandaloneIgnoresConnector ==
    Called =>
        /\ Len(unet.applied) <= Len(PipelinesInOrder)
        /\ unet.applied = SubSeq(PipelinesInOrder, 1, Len(unet.applied))
        /\ unet.pc = "returned" => unet.applied = PipelinesInOrder
        /\ unet.pc \in {"returned", "error"} =>
              \A with_connector \in SeqsOfLen(BOOLEAN, Len(unet.cfg.channel_mult)),
                 levels \in ConnectorLevels :
                  LET other == OtherConnector(with_connector, levels)
                  IN /\ other.pc = unet.pc
                     /\ other.err = unet.err
                     /\ other.h = unet.h
                     /\ other.applied = unet.applied

\* a two-dimensional tower with a connector-attention stage beside every
\* Stage-Block pipeline and a connector of two levels has returned from a
\* call of its own forward
C23_Witness ==
    /\ unet.pc = "returned"
    /\ unet.cfg.kind = "2d"
    /\ unet.cfg.num_noattn_blocks = <<1, 1>>
    /\ unet.cfg.with_connector = <<TRUE, TRUE>>
    /\ Len(unet.cfg.channel_mult_connector) = 2
    /\ ~unet.input_block_connecters_in[2].none
    /\ Len(unet.applied) = 10

====
